---- MODULE Spec2Model ----
(***************************************************************************)
(* P2P order aggregation, diffing and arbitrage matching                   *)
(* (deenoize/crypto-p2p-ai).                                               *)
(*                                                                         *)
(* Conventions.  A JavaScript number that is known to be finite is an      *)
(* integer: prices and merchant ratings are in hundredths, every other     *)
(* quantity is in whole units.  A number that may be NaN is a record       *)
(* [k |-> "num", v |-> n] or [k |-> "nan", v |-> 0].  A quotient is kept   *)
(* exact as [num, den] with den >= 0, den = 0 standing for +Infinity,      *)
(* -Infinity or NaN by the sign of num; the rounding of IEEE doubles is    *)
(* not modelled.                                                           *)
(***************************************************************************)
EXTENDS Integers, Sequences, FiniteSets, TLC

VARIABLES
    \* Snapshot differ called on its own (hasOrdersChanged)
    dNewOrders, dPreviousOrderIds, dResult,
    \* Arbitrage matcher called on its own (calculateArbitrageOpportunities)
    mBuyOrders, mSellOrders, mFilters, mResult,
    \* Order normalizer called on its own (the body of fetchOrders after the request)
    nExchange, nTradeType, nBody, nNow, nRandom, nResult,
    \* Depth bucketizer called on its own (the depth chart of fetchOrderBookData)
    bBuyOrders, bSellOrders, bResult,
    \* getOrders called on its own: the service, its two responses, its
    \* previous-id sets, the outcome, and (history) the calls made so far
    gExchange, gBuy, gSell, gPreviousBuyOrders, gPreviousSellOrders, gResult, gPolls,
    \* OrderBook: its props, its spot price state, its price requests awaiting
    \* an answer, and (history) what set the spot price last, for which props
    pFiat, pCrypto, pBuyOrders, pSellOrders, pSpotPrice,
    currentSpotPrice, spotLoading, spotFetches, resolution,
    \* OKX route handlers called on their own: the parameters of the
    \* request received and the request made to OKX
    hFiat, hCrypto, hTradeType, hResult,
    \* OrderBook: the payment methods selected
    selectedPaymentMethods,
    \* P2PComparison with order selection: the orders selected, the spread
    \* dialog flag and the order type filters of its comparison state
    selectedBuyOrder, selectedSellOrder, isSpreadDialogOpen, leftOrderType, rightOrderType,
    \* The two exported services (binanceP2PService, okxP2PService), by exchange
    previousBuyOrders, previousSellOrders,
    \* The getOrders calls in flight, the calls started so far, and the clock
    calls, started, now,
    \* History: the id sets of the last snapshot returned per exchange and pair,
    \* and the last getOrders return with the id sets it should be compared to
    lastSnapshot, lastReturn,
    \* DashboardPage
    exchange, fiat, crypto, orders, loading, error,
    \* History: the call whose result orders holds, and the selection it was shown under
    ordersFrom,
    \* OrderBookAnalysis
    aLoading, aError, stats, orderBook, depthChartData,
    \* P2PComparison: its state, its fetches awaiting Promise.all, and (history)
    \* the last cycle whose two calls are both over, with the state then shown
    comparison, cycles, cycleOutcome

diffVars  == <<dNewOrders, dPreviousOrderIds, dResult>>
matchVars == <<mBuyOrders, mSellOrders, mFilters, mResult>>
normVars  == <<nExchange, nTradeType, nBody, nNow, nRandom, nResult>>
depthVars == <<bBuyOrders, bSellOrders, bResult>>
getVars == <<gExchange, gBuy, gSell, gPreviousBuyOrders, gPreviousSellOrders, gResult,
             gPolls>>
spotVars == <<pFiat, pCrypto, pBuyOrders, pSellOrders, pSpotPrice,
              currentSpotPrice, spotLoading, spotFetches, resolution>>
sideVars == <<hFiat, hCrypto, hTradeType, hResult>>
payVars == <<selectedPaymentMethods>>
dialogVars == <<selectedBuyOrder, selectedSellOrder, isSpreadDialogOpen, leftOrderType, rightOrderType>>
pureVars == <<diffVars, matchVars, normVars, depthVars, getVars, spotVars,
              sideVars,
              payVars,
              dialogVars>>
serviceVars == <<previousBuyOrders, previousSellOrders, calls, started, now,
                 lastSnapshot, lastReturn>>
pageVars == <<exchange, fiat, crypto, orders, loading, error, ordersFrom>>
analysisVars == <<aLoading, aError, stats, orderBook, depthChartData>>
comparisonVars == <<comparison, cycles, cycleOutcome>>
systemVars == <<serviceVars, pageVars, analysisVars, comparisonVars>>
vars == <<pureVars, systemVars>>

\* ------------------------------------------------------------------ bounds
\* Longest order list handed to the differ, the matcher and the bucketizer.
MaxOrders == 2
\* Longest raw response handed to the normalizer.
MaxItems == 2
\* getOrders calls that may be in flight at once, getOrders calls started in
\* a run, and seconds the clock may advance.
MaxInFlight == 3
MaxStarted == 4
MaxTicks == 1
\* P2PComparison fetches that may be awaiting their calls at once.
MaxCycles == 2
\* OrderBook price requests that may be awaiting an answer at once.
MaxSpotFetches == 1
\* getOrders calls made one after the other on the same responses.
MaxPolls == 2

\* ----------------------------------------------------------------- helpers
Range(s) == {s[i] : i \in 1..Len(s)}

SeqsUpTo(S, n) == UNION {[1..k -> S] : k \in 0..n}

Num(n) == [k |-> "num", v |-> n]
NaN == [k |-> "nan", v |-> 0]
isNaN(x) == x.k = "nan"

\* a / b of two finite numbers, exact.
Div(a, b) ==
    IF b > 0 THEN [num |-> a, den |-> b]
    ELSE IF b < 0 THEN [num |-> -a, den |-> -b]
    ELSE [num |-> (IF a > 0 THEN 1 ELSE IF a < 0 THEN -1 ELSE 0), den |-> 0]

\* q * n for a quotient q and a finite n > 0.
Times(q, n) == [num |-> (IF q.den = 0 THEN q.num ELSE q.num * n), den |-> q.den]

\* q >= x for a quotient q and a possibly-NaN number x (false when either is NaN).
QGeNum(q, x) ==
    /\ ~isNaN(x)
    /\ IF q.den > 0 THEN q.num >= x.v * q.den ELSE q.num > 0

\* The sign of p - q as a sort comparator sees it: 1, -1, or 0 (0 also when the
\* difference is NaN, as for Infinity - Infinity).
QCompare(p, q) ==
    IF p.den > 0 /\ q.den > 0
    THEN (IF p.num * q.den > q.num * p.den THEN 1
          ELSE IF p.num * q.den < q.num * p.den THEN -1 ELSE 0)
    ELSE IF p.den = 0 /\ q.den = 0
    THEN (IF p.num = 0 \/ q.num = 0 \/ p.num = q.num THEN 0
          ELSE IF p.num > q.num THEN 1 ELSE -1)
    ELSE IF p.den = 0 THEN p.num
    ELSE -q.num

\* Math.max / Math.min over possibly-NaN numbers: NaN if any argument is NaN.
MathMax3(a, b, c) ==
    IF isNaN(a) \/ isNaN(b) \/ isNaN(c) THEN NaN
    ELSE Num(IF a.v >= b.v /\ a.v >= c.v THEN a.v ELSE IF b.v >= c.v THEN b.v ELSE c.v)

MathMin3(a, b, c) ==
    IF isNaN(a) \/ isNaN(b) \/ isNaN(c) THEN NaN
    ELSE Num(IF a.v <= b.v /\ a.v <= c.v THEN a.v ELSE IF b.v <= c.v THEN b.v ELSE c.v)

\* a >= b and a < b on possibly-NaN numbers (both false when either is NaN).
JsGe(a, b) == ~isNaN(a) /\ ~isNaN(b) /\ a.v >= b.v

JsLt(a, b) == ~isNaN(a) /\ ~isNaN(b) /\ a.v < b.v

\* ------------------------------------------------------------ JSON values
\* A value of a raw exchange payload: undefined (absent), null, a string (its
\* characters) or a finite number (in hundredths).
Undefined == [t |-> "undefined", s |-> <<>>, n |-> 0]
Null == [t |-> "null", s |-> <<>>, n |-> 0]
Str(chars) == [t |-> "string", s |-> chars, n |-> 0]
JNum(n) == [t |-> "number", s |-> <<>>, n |-> n]

\* The operand of x || y is x when x is truthy: not undefined, null, "", 0.
Truthy(x) ==
    \/ x.t = "string" /\ x.s # <<>>
    \/ x.t = "number" /\ x.n # 0

OrElse(x, y) == IF Truthy(x) THEN x ELSE y

DigitChars == <<"0", "1", "2", "3", "4", "5", "6", "7", "8", "9">>
IsDigit(c) == \E d \in 1..10 : DigitChars[d] = c
DigitVal(c) == (CHOOSE d \in 1..10 : DigitChars[d] = c) - 1

\* The number of digits of s from position i on.
RECURSIVE DigitRun(_, _)
DigitRun(s, i) ==
    IF i <= Len(s) /\ IsDigit(s[i]) THEN 1 + DigitRun(s, i + 1) ELSE 0

\* The value of the digits s[i..i+n-1].
RECURSIVE DigitsValue(_, _, _)
DigitsValue(s, i, n) ==
    IF n = 0 THEN 0 ELSE DigitsValue(s, i, n - 1) * 10 + DigitVal(s[i + n - 1])

RECURSIVE SkipSpaces(_, _)
SkipSpaces(s, i) == IF i <= Len(s) /\ s[i] = " " THEN SkipSpaces(s, i + 1) ELSE i

\* parseFloat of a string: leading blanks, a sign, then the longest prefix
\* digits [. digits]; NaN when that prefix holds no digit.  The result is in
\* hundredths; the inputs hold no third decimal and no exponent.
ParseFloatString(s) ==
    LET i0 == SkipSpaces(s, 1)
        neg == i0 <= Len(s) /\ s[i0] = "-"
        i1 == IF i0 <= Len(s) /\ s[i0] \in {"-", "+"} THEN i0 + 1 ELSE i0
        n1 == DigitRun(s, i1)
        dot == i1 + n1 <= Len(s) /\ s[i1 + n1] = "."
        n2 == IF dot THEN DigitRun(s, i1 + n1 + 1) ELSE 0
        whole == DigitsValue(s, i1, n1)
        frac == IF n2 = 0 THEN 0
                ELSE IF n2 = 1 THEN 10 * DigitVal(s[i1 + n1 + 1])
                ELSE DigitsValue(s, i1 + n1 + 1, 2)
        abs == whole * 100 + frac
    IN  IF n1 + n2 = 0 THEN NaN ELSE Num(IF neg THEN -abs ELSE abs)

\* parseFloat(x): x is first converted to a string ("undefined" and "null"
\* hold no digits; a finite number prints as itself).
parseFloat(x) ==
    CASE x.t = "string" -> ParseFloatString(x.s)
      [] x.t = "number" -> Num(x.n)
      [] OTHER -> NaN

\* -------------------------------------------------------- Order normalizer
\* A raw item is [adv, advertiser], each a record of JSON values or absent
\* (has = FALSE).  Of the advertiser the model keeps the fields the matcher
\* and the last-online display read; the display-only fields (nickName,
\* monthFinishRate, userType, userIdentity) are left out.
\* adv.tradeMethods: absent, or an array of methods, each with an identifier
\* and a payType that may be absent.
NoTradeMethods == [t |-> "undefined", items |-> <<>>]
TradeMethods(methods) == [t |-> "array", items |-> methods]
Method(identifier, payType) == [identifier |-> identifier, payType |-> payType]
BankMethod == Method(Str(<<"B", "A", "N", "K">>), Undefined)

Adv(price, surplusAmount, minSingleTransAmount, maxSingleTransAmount, advNo) ==
    [has |-> TRUE, price |-> price, surplusAmount |-> surplusAmount,
     minSingleTransAmount |-> minSingleTransAmount,
     maxSingleTransAmount |-> maxSingleTransAmount, advNo |-> advNo,
     tradeMethods |-> TradeMethods(<<BankMethod>>)]

NoAdv == [has |-> FALSE, price |-> Undefined, surplusAmount |-> Undefined,
          minSingleTransAmount |-> Undefined, maxSingleTransAmount |-> Undefined,
          advNo |-> Undefined, tradeMethods |-> NoTradeMethods]

\* item with its adv.tradeMethods replaced.
WithTradeMethods(item, tradeMethods) == [item EXCEPT !.adv.tradeMethods = tradeMethods]

Advertiser(activeTimeInSecond, positiveRate, monthOrderCount) ==
    [has |-> TRUE, activeTimeInSecond |-> activeTimeInSecond,
     positiveRate |-> positiveRate, monthOrderCount |-> monthOrderCount]

NoAdvertiser == [has |-> FALSE, activeTimeInSecond |-> Undefined,
                 positiveRate |-> Undefined, monthOrderCount |-> Undefined]

\* item.x.y throws a TypeError when item.x is absent.
BinanceItemThrows(item) == ~item.advertiser.has \/ ~item.adv.has

\* The four numbers of an item as each service parses them.
ParsedNumbers(ex, item) ==
    IF ex = "binance"
    THEN [price |-> parseFloat(item.adv.price),
          amount |-> parseFloat(item.adv.surplusAmount),
          minAmount |-> parseFloat(item.adv.minSingleTransAmount),
          maxAmount |-> parseFloat(item.adv.maxSingleTransAmount)]
    ELSE [price |-> parseFloat(OrElse(item.adv.price, Str(<<"0">>))),
          amount |-> parseFloat(OrElse(item.adv.surplusAmount, Str(<<"0">>))),
          minAmount |-> parseFloat(OrElse(item.adv.minSingleTransAmount, Str(<<"0">>))),
          maxAmount |-> parseFloat(OrElse(item.adv.maxSingleTransAmount, Str(<<"0">>)))]

\* The map callback returns null: the item is dropped by .filter(Boolean).
ItemDropped(ex, item) ==
    LET p == ParsedNumbers(ex, item)
    IN  isNaN(p.price) \/ isNaN(p.amount) \/ isNaN(p.minAmount) \/ isNaN(p.maxAmount)

\* The advNo of the order: the exchange's own, or a generated one.  index is
\* the item's 0-based place in the response; now is Date.now(); random is the
\* text Math.random() yields for this item.
AdvNoOf(ex, tradeType, item, index, time, random) ==
    IF Truthy(item.adv.advNo)
    THEN <<"native", item.adv.advNo>>
    ELSE IF ex = "binance"
         THEN <<"generated", tradeType, index, time>>
         ELSE <<"okx", tradeType, time, random>>

\* lastOnlineTime: Math.floor(Date.now() / 1000) - activeTimeInSecond, or 0.
\* The model's clock counts seconds.
LastOnlineTimeOf(item, time) ==
    IF Truthy(item.advertiser.activeTimeInSecond)
    THEN time - item.advertiser.activeTimeInSecond.n
    ELSE 0

NumberOrZero(x) == IF Truthy(x) THEN x.n ELSE 0

\* paymentMethods: Binance maps each method to its identifier when
\* tradeMethods is there; OKX maps each method of an array to
\* identifier || payType || 'Unknown'; otherwise [].
PaymentMethodsOf(ex, item) ==
    LET tradeMethods == item.adv.tradeMethods
    IN  IF tradeMethods.t # "array" THEN <<>>
        ELSE [i \in 1..Len(tradeMethods.items) |->
                 IF ex = "binance" THEN tradeMethods.items[i].identifier
                 ELSE OrElse(OrElse(tradeMethods.items[i].identifier,
                                    tradeMethods.items[i].payType),
                             Str(<<"U", "n", "k", "n", "o", "w", "n">>))]

\* The order a kept item is mapped to.
OrderOf(ex, tradeType, item, index, time, random) ==
    LET p == ParsedNumbers(ex, item)
        advNo == AdvNoOf(ex, tradeType, item, index, time, random)
    IN  [advNo |-> advNo,
         id |-> advNo,
         price |-> p.price.v,
         amount |-> p.amount.v,
         minAmount |-> p.minAmount.v,
         maxAmount |-> p.maxAmount.v,
         paymentMethods |-> PaymentMethodsOf(ex, item),
         merchant |-> [rating |-> NumberOrZero(item.advertiser.positiveRate),
                       completedTrades |-> NumberOrZero(item.advertiser.monthOrderCount),
                       lastOnlineTime |-> LastOnlineTimeOf(item, time)]]

\* response.data.data.map(...).filter(Boolean) over the first n items.
RECURSIVE MapFilter(_, _, _, _, _, _)
MapFilter(ex, tradeType, items, n, time, random) ==
    IF n = 0 THEN <<>>
    ELSE LET before == MapFilter(ex, tradeType, items, n - 1, time, random)
         IN  IF ItemDropped(ex, items[n]) THEN before
             ELSE Append(before,
                         OrderOf(ex, tradeType, items[n], n - 1, time, random[n]))

\* The response body (response.data): an object with a data member that is an
\* array of items, null, absent, or some other object; or not an object at all.
BodyOf(items) == [t |-> "object", data |-> [t |-> "array", items |-> items]]
BodyNullData == [t |-> "object", data |-> [t |-> "null", items |-> <<>>]]
BodyNoData == [t |-> "object", data |-> [t |-> "undefined", items |-> <<>>]]
BodyDataNotArray == [t |-> "object", data |-> [t |-> "object", items |-> <<>>]]
BodyNotObject == [t |-> "string", data |-> [t |-> "undefined", items |-> <<>>]]

Resolved(list) == [ok |-> TRUE, orders |-> list, error |-> ""]
Rejected(message) == [ok |-> FALSE, orders |-> <<>>, error |-> message]

\* A fetchOrders that resolves with no orders when the body has no data.
fetchOrders_emptyOnInvalid(ex, tradeType, body, time, random) ==
    IF body.t # "object" \/ body.data.t # "array"
    THEN Resolved(<<>>)
    ELSE Resolved(MapFilter(ex, tradeType, body.data.items,
                            Len(body.data.items), time, random))

\* fetchOrders once the request has answered with body: the orders it resolves
\* with, or the message of the Error it rejects with.
fetchOrders(ex, tradeType, body, time, random) ==
    IF body.t # "object" \/ body.data.t \in {"null", "undefined"}
    THEN Rejected("Invalid API response structure")
    ELSE IF body.data.t # "array"
    THEN Rejected("response.data.data.map is not a function")
    ELSE IF ex = "binance"
            /\ \E n \in 1..Len(body.data.items) : BinanceItemThrows(body.data.items[n])
    THEN Rejected("Cannot read properties of undefined")
    ELSE Resolved(MapFilter(ex, tradeType, body.data.items,
                            Len(body.data.items), time, random))

\* Raw items the normalizer is exercised on: a well-formed offer, and the same
\* offer with one member replaced at a time.
RawItem(price, surplusAmount, minSingleTransAmount, maxSingleTransAmount, advNo) ==
    [adv |-> Adv(price, surplusAmount, minSingleTransAmount, maxSingleTransAmount, advNo),
     advertiser |-> Advertiser(JNum(60), JNum(98), JNum(500))]

GoodPrice == Str(<<"1", ".", "5">>)
GoodAmount == Str(<<"8", "0">>)
GoodMin == Str(<<"1", "0">>)
GoodMax == Str(<<"5", "0", "0">>)
GoodAdvNo == Str(<<"A">>)

RawNumbers ==
    { Str(<<"0">>), Str(<<"-", "1">>), Str(<<"a", "b", "c">>), Str(<<>>),
      Str(<<" ", "2">>), Str(<<"1", "a">>), Undefined, Null, JNum(200), JNum(0) }

RawItems ==
    {RawItem(GoodPrice, GoodAmount, GoodMin, GoodMax, GoodAdvNo)}
    \cup {RawItem(x, GoodAmount, GoodMin, GoodMax, GoodAdvNo) : x \in RawNumbers}
    \cup {RawItem(GoodPrice, x, GoodMin, GoodMax, Str(<<"B">>)) :
              x \in {Str(<<"0">>), Str(<<"x">>), Undefined}}
    \cup {RawItem(GoodPrice, GoodAmount, x, GoodMax, Str(<<"C">>)) :
              x \in {Undefined, Str(<<"9", "0", "0">>)}}
    \cup {RawItem(GoodPrice, GoodAmount, GoodMin, x, Str(<<"D">>)) :
              x \in {Undefined, Str(<<"x">>)}}
    \cup {RawItem(GoodPrice, GoodAmount, GoodMin, GoodMax, Undefined)}
    \cup {[adv |-> NoAdv, advertiser |-> Advertiser(JNum(60), JNum(98), JNum(500))],
          [adv |-> Adv(GoodPrice, GoodAmount, GoodMin, GoodMax, Str(<<"E">>)),
           advertiser |-> NoAdvertiser],
          [adv |-> Adv(GoodPrice, GoodAmount, GoodMin, GoodMax, Str(<<"F">>)),
           advertiser |-> Advertiser(Undefined, Undefined, Undefined)]}
    \cup {WithTradeMethods(RawItem(GoodPrice, GoodAmount, GoodMin, GoodMax, Str(<<"G">>)), m) :
              m \in {NoTradeMethods, TradeMethods(<<>>),
                     TradeMethods(<<Method(Undefined, Str(<<"c", "a", "r", "d">>)),
                                    Method(Undefined, Undefined)>>)}}

Exchanges == {"binance", "okx"}
TradeTypes == {"BUY", "SELL"}
RandomTexts == {"r1", "r2"}
Clock == {100, 101}

InitNormIdle ==
    /\ nExchange = "binance"
    /\ nTradeType = "BUY"
    /\ nBody = BodyOf(<<>>)
    /\ nNow = 0
    /\ nRandom = <<>>
    /\ nResult = <<"idle">>

InitNorm ==
    /\ nExchange \in Exchanges
    /\ nTradeType \in TradeTypes
    /\ nBody \in {BodyOf(items) : items \in SeqsUpTo(RawItems, MaxItems)}
                    \cup {BodyNullData, BodyNoData, BodyDataNotArray, BodyNotObject}
    /\ nNow \in Clock
    /\ nRandom \in [1..MaxItems -> RandomTexts]
    /\ nResult = <<"pending">>

CallFetchOrders ==
    /\ nResult = <<"pending">>
    /\ nResult' = <<"done", fetchOrders(nExchange, nTradeType, nBody, nNow, nRandom)>>
    /\ UNCHANGED <<nExchange, nTradeType, nBody, nNow, nRandom, diffVars, matchVars, depthVars, getVars, spotVars,
                   sideVars,
                   payVars,
                   dialogVars, systemVars>>

\* ---------------------------------------------------------------- OrderBook
\* formatLastOnline at the second time of the view's clock: 'Unknown' only for
\* a value that is neither truthy nor 0 (NaN, undefined, null).
formatLastOnline(lastOnlineTime, time) ==
    IF isNaN(lastOnlineTime) THEN <<"Unknown">>
    ELSE LET diffSeconds == time - lastOnlineTime.v
         IN  IF diffSeconds < 0 THEN <<"Just now">>
             ELSE IF diffSeconds < 60 THEN <<"Just now">>
             ELSE IF diffSeconds < 3600 THEN <<diffSeconds \div 60, "m ago">>
             ELSE IF diffSeconds < 86400 THEN <<diffSeconds \div 3600, "h ago">>
             ELSE <<diffSeconds \div 86400, "d ago">>

\* ---------------------------------------------------------- sorting orders
\* Array.prototype.sort (stable) with (a, b) => a.price - b.price ("asc") or
\* (a, b) => b.price - a.price ("desc").
ComparePrice(direction, a, b) ==
    IF direction = "asc" THEN a.price - b.price ELSE b.price - a.price

RECURSIVE InsertOrder(_, _, _)
InsertOrder(direction, sorted, x) ==
    IF sorted = <<>> THEN <<x>>
    ELSE IF ComparePrice(direction, Head(sorted), x) > 0
         THEN <<x>> \o sorted
         ELSE <<Head(sorted)>> \o InsertOrder(direction, Tail(sorted), x)

RECURSIVE SortByPrice(_, _)
SortByPrice(direction, list) ==
    IF list = <<>> THEN <<>>
    ELSE InsertOrder(direction,
                     SortByPrice(direction, SubSeq(list, 1, Len(list) - 1)),
                     list[Len(list)])

\* -------------------------------------------------------- Depth bucketizer
\* bucketSize = range / DepthDivisions; DepthBuckets labels and volumes.
DepthDivisions == 10
DepthBuckets == 12

RECURSIVE SumSeq(_)
SumSeq(s) == IF s = <<>> THEN 0 ELSE Head(s) + SumSeq(Tail(s))

MinOf(S) == CHOOSE x \in S : \A y \in S : x <= y
MaxOf(S) == CHOOSE x \in S : \A y \in S : x >= y

\* Math.floor((price - minPrice) / bucketSize): NaN when the range is 0 (0 / 0).
\* Taken exactly; the rounding of the double division is not modelled.
BucketIndex(price, minPrice, range) ==
    IF range = 0 THEN NaN
    ELSE Num(((price - minPrice) * DepthDivisions) \div range)

\* orders.forEach(order => { if (0 <= bucketIndex < data.length) data[bucketIndex] += order.amount })
\* over the first n orders, from zeros.
RECURSIVE FillBuckets(_, _, _, _)
FillBuckets(list, n, minPrice, range) ==
    IF n = 0 THEN [i \in 1..DepthBuckets |-> 0]
    ELSE LET data == FillBuckets(list, n - 1, minPrice, range)
             bucketIndex == BucketIndex(list[n].price, minPrice, range)
         IN  IF JsGe(bucketIndex, Num(0)) /\ JsLt(bucketIndex, Num(Len(data)))
             THEN [data EXCEPT ![bucketIndex.v + 1] = @ + list[n].amount]
             ELSE data

\* The buy series left as the per-bucket volumes.
CumulativeUp_perBucket(data) == data

\* for (i = 1; i < length; i++) data[i] += data[i - 1]
CumulativeUp(data) == [i \in 1..Len(data) |-> SumSeq(SubSeq(data, 1, i))]

\* for (i = length - 2; i >= 0; i--) data[i] += data[i + 1]
CumulativeDown(data) == [i \in 1..Len(data) |-> SumSeq(SubSeq(data, i, Len(data)))]

\* (minPrice + bucketSize * i).toFixed(2), in hundredths: the value is
\* (DepthDivisions * minPrice + range * i) / DepthDivisions, rounded half up.
BucketLabel(minPrice, range, i) ==
    (2 * (DepthDivisions * minPrice + range * i) + DepthDivisions)
        \div (2 * DepthDivisions)

\* The depth chart fetchOrderBookData computes from a snapshot; computed is
\* FALSE when a side is empty and the chart is left as it was.  buyBuckets
\* and sellBuckets are buyData and sellData before the cumulative sums;
\* minPrice, maxPrice and bucketSize are the locals of those names.
DepthChart(dataBuyOrders, dataSellOrders) ==
    LET buyOrders == SortByPrice("desc", dataBuyOrders)
        sellOrders == SortByPrice("asc", dataSellOrders)
    IN  IF buyOrders = <<>> \/ sellOrders = <<>>
        THEN [computed |-> FALSE, minPrice |-> 0, maxPrice |-> 0,
              bucketSize |-> Div(0, DepthDivisions),
              labels |-> <<>>, buyBuckets |-> <<>>,
              sellBuckets |-> <<>>, buyData |-> <<>>, sellData |-> <<>>]
        ELSE LET allPrices == {o.price : o \in Range(buyOrders) \cup Range(sellOrders)}
                 minPrice == MinOf(allPrices)
                 maxPrice == MaxOf(allPrices)
                 range == maxPrice - minPrice
                 buyBuckets == FillBuckets(buyOrders, Len(buyOrders), minPrice, range)
                 sellBuckets == FillBuckets(sellOrders, Len(sellOrders), minPrice, range)
             IN  [computed |-> TRUE,
                  minPrice |-> minPrice,
                  maxPrice |-> maxPrice,
                  bucketSize |-> Div(range, DepthDivisions),
                  labels |-> [i \in 1..DepthBuckets |-> BucketLabel(minPrice, range, i - 1)],
                  buyBuckets |-> buyBuckets,
                  sellBuckets |-> sellBuckets,
                  buyData |-> CumulativeUp(buyBuckets),
                  sellData |-> CumulativeDown(sellBuckets)]

DepthOrders == [price : {100, 101, 110, 150}, amount : {5, 7}]

InitDepthIdle ==
    /\ bBuyOrders = <<>>
    /\ bSellOrders = <<>>
    /\ bResult = <<"idle">>

InitDepth ==
    /\ bBuyOrders \in SeqsUpTo(DepthOrders, MaxOrders)
    /\ bSellOrders \in SeqsUpTo(DepthOrders, MaxOrders)
    /\ bResult = <<"pending">>

CallDepthChart ==
    /\ bResult = <<"pending">>
    /\ bResult' = <<"done", DepthChart(bBuyOrders, bSellOrders)>>
    /\ UNCHANGED <<bBuyOrders, bSellOrders, diffVars, matchVars, normVars, getVars,
                   spotVars,
                   sideVars,
                   payVars,
                   dialogVars, systemVars>>

\* ---------------------------------------------------------- Snapshot differ
\* hasOrdersChanged without the removal test.
hasOrdersChanged_additionsOnly(newOrders, previousOrderIds) ==
    LET newOrderIds == {newOrders[i].advNo : i \in 1..Len(newOrders)}
    IN  \E id \in newOrderIds : id \notin previousOrderIds

hasOrdersChanged(newOrders, previousOrderIds) ==
    LET newOrderIds == {newOrders[i].advNo : i \in 1..Len(newOrders)}
        hasRemovals == \E id \in previousOrderIds : id \notin newOrderIds
        hasAdditions == \E id \in newOrderIds : id \notin previousOrderIds
    IN  hasRemovals \/ hasAdditions

\* Orders the differ is exercised on: two listings, each seen with two prices
\* and by two merchants' names.
DiffIds == {"A", "B", "C"}
DiffOrders ==
    [advNo : {"A", "B"}, price : {90, 100}, amount : {50}, merchant : {"m1"}]
        \cup {[advNo |-> "C", price |-> 100, amount |-> 80, merchant |-> "m2"]}

InitDiffIdle ==
    /\ dNewOrders = <<>>
    /\ dPreviousOrderIds = {}
    /\ dResult = <<"idle">>

InitDiff ==
    /\ dNewOrders \in SeqsUpTo(DiffOrders, MaxOrders + 1)
    /\ dPreviousOrderIds \in SUBSET DiffIds
    /\ dResult = <<"pending">>

CallHasOrdersChanged ==
    /\ dResult = <<"pending">>
    /\ dResult' = <<"done", hasOrdersChanged(dNewOrders, dPreviousOrderIds)>>
    /\ UNCHANGED <<dNewOrders, dPreviousOrderIds, matchVars, normVars, depthVars, getVars, spotVars,
                   sideVars,
                   payVars,
                   dialogVars, systemVars>>

\* ------------------------------------------------------- Arbitrage matcher
\* The opportunity with its maximum also capped by the amounts on offer.
Opportunity_amountCapped(buyOrder, sellOrder, currentFilters, i, j) ==
    LET spread == sellOrder.price - buyOrder.price
        cap == IF buyOrder.amount <= sellOrder.amount THEN buyOrder.amount
               ELSE sellOrder.amount
    IN  [id |-> <<buyOrder.id, sellOrder.id>>,
         buyPrice |-> buyOrder.price,
         sellPrice |-> sellOrder.price,
         spread |-> spread,
         spreadPercentage |-> Times(Div(spread, buyOrder.price), 100),
         minAmount |-> MathMax3(Num(buyOrder.minAmount), Num(sellOrder.minAmount),
                                currentFilters.minAmount),
         maxAmount |-> MathMin3(Num(cap), Num(sellOrder.maxAmount),
                                currentFilters.maxAmount),
         gen |-> <<i, j>>]

\* The record pushed for the pair (buyOrder, sellOrder); gen is the pair's place
\* in the two loops (buy orders in the outer loop, sell orders in the inner one).
Opportunity(buyOrder, sellOrder, currentFilters, i, j) ==
    LET spread == sellOrder.price - buyOrder.price
        spreadPercentage == Times(Div(spread, buyOrder.price), 100)
        minAmount == MathMax3(Num(buyOrder.minAmount), Num(sellOrder.minAmount),
                              currentFilters.minAmount)
        maxAmount == MathMin3(Num(buyOrder.maxAmount), Num(sellOrder.maxAmount),
                              currentFilters.maxAmount)
    IN  [id |-> <<buyOrder.id, sellOrder.id>>,
         buyPrice |-> buyOrder.price,
         sellPrice |-> sellOrder.price,
         spread |-> spread,
         spreadPercentage |-> spreadPercentage,
         minAmount |-> minAmount,
         maxAmount |-> maxAmount,
         gen |-> <<i, j>>]

MerchantOk(order, currentFilters) ==
    /\ ~JsLt(Num(order.merchant.rating), currentFilters.minUserRating)
    /\ ~(order.merchant.completedTrades < currentFilters.minCompletedTrades)

\* The pair (i, j) is pushed onto the result.
Emitted_noLimitCheck(buyOrders, sellOrders, currentFilters, i, j) ==
    LET opp == Opportunity(buyOrders[i], sellOrders[j], currentFilters, i, j)
    IN  /\ MerchantOk(buyOrders[i], currentFilters)
        /\ MerchantOk(sellOrders[j], currentFilters)
        /\ QGeNum(opp.spreadPercentage, currentFilters.minSpread)

Emitted(buyOrders, sellOrders, currentFilters, i, j) ==
    LET opp == Opportunity(buyOrders[i], sellOrders[j], currentFilters, i, j)
    IN  /\ MerchantOk(buyOrders[i], currentFilters)
        /\ MerchantOk(sellOrders[j], currentFilters)
        /\ QGeNum(opp.spreadPercentage, currentFilters.minSpread)
        /\ JsGe(opp.maxAmount, opp.minAmount)

\* The opportunities array before the final sort.
RECURSIVE Generated(_, _, _, _)
Generated(buyOrders, sellOrders, currentFilters, n) ==
    \* n counts the (i, j) pairs visited so far, row by row
    IF n = 0 THEN <<>>
    ELSE LET i == ((n - 1) \div Len(sellOrders)) + 1
             j == ((n - 1) % Len(sellOrders)) + 1
             before == Generated(buyOrders, sellOrders, currentFilters, n - 1)
         IN  IF Emitted(buyOrders, sellOrders, currentFilters, i, j)
             THEN Append(before, Opportunity(buyOrders[i], sellOrders[j], currentFilters, i, j))
             ELSE before

\* The comparator of the final sort, (a, b) => b.spreadPercentage - a.spreadPercentage:
\* positive when a sorts after b.
CompareOpportunities_ascending(a, b) == QCompare(a.spreadPercentage, b.spreadPercentage)

CompareOpportunities(a, b) == QCompare(b.spreadPercentage, a.spreadPercentage)

\* Array.prototype.sort (ECMAScript 2019: stable), as an insertion sort that puts
\* each element behind every element that does not sort after it.
RECURSIVE InsertOpportunity(_, _)
InsertOpportunity(sorted, x) ==
    IF sorted = <<>> THEN <<x>>
    ELSE IF CompareOpportunities(Head(sorted), x) > 0
         THEN <<x>> \o sorted
         ELSE <<Head(sorted)>> \o InsertOpportunity(Tail(sorted), x)

RECURSIVE SortOpportunities(_)
SortOpportunities(opportunities) ==
    IF opportunities = <<>> THEN <<>>
    ELSE InsertOpportunity(
             SortOpportunities(SubSeq(opportunities, 1, Len(opportunities) - 1)),
             opportunities[Len(opportunities)])

calculateArbitrageOpportunities(buyOrders, sellOrders, currentFilters) ==
    SortOpportunities(
        Generated(buyOrders, sellOrders, currentFilters, Len(buyOrders) * Len(sellOrders)))

\* Orders the matcher is exercised on.  o90 and o90b differ only in id and
\* amount (equal spreads); oZero has price 0; oNarrow has limits that meet no
\* other order's; oNew is a merchant with few trades and a low rating.
MatchOrder(id, price, amount, minAmount, maxAmount, rating, completedTrades) ==
    [id |-> id, price |-> price, amount |-> amount,
     minAmount |-> minAmount, maxAmount |-> maxAmount,
     merchant |-> [rating |-> rating, completedTrades |-> completedTrades]]

o90 == MatchOrder("o90", 90, 80, 10, 1000, 98, 500)
o110 == MatchOrder("o110", 110, 50, 10, 500, 98, 500)

MatchOrders ==
    { o90, o110,
      MatchOrder("o90b", 90, 30, 10, 1000, 98, 500),
      MatchOrder("oZero", 0, 5, 10, 1000, 98, 500),
      MatchOrder("oNarrow", 120, 5, 2000, 3000, 98, 500),
      MatchOrder("oNew", 130, 5, 10, 1000, 50, 3) }

MatchFilters ==
    [minSpread : {Num(5), NaN},
     minAmount : {Num(0)},
     maxAmount : {Num(10000), Num(50)},
     minUserRating : {Num(95)},
     minCompletedTrades : {100}]
    \cup
    [minSpread : {Num(0)},
     minAmount : {Num(100), NaN},
     maxAmount : {Num(10000), NaN},
     minUserRating : {NaN},
     minCompletedTrades : {0}]

InitMatchIdle ==
    /\ mBuyOrders = <<>>
    /\ mSellOrders = <<>>
    /\ mFilters = [minSpread |-> Num(0), minAmount |-> Num(0), maxAmount |-> Num(0),
                   minUserRating |-> Num(0), minCompletedTrades |-> 0]
    /\ mResult = <<"idle">>

InitMatch ==
    /\ mBuyOrders \in SeqsUpTo(MatchOrders, MaxOrders)
    /\ mSellOrders \in SeqsUpTo(MatchOrders, MaxOrders)
    /\ mFilters \in MatchFilters
    /\ mResult = <<"pending">>

CallCalculateArbitrageOpportunities ==
    /\ mResult = <<"pending">>
    /\ mResult' = <<"done",
                    calculateArbitrageOpportunities(mBuyOrders, mSellOrders, mFilters)>>
    /\ UNCHANGED <<mBuyOrders, mSellOrders, mFilters, diffVars, normVars, depthVars, getVars, spotVars,
                   sideVars,
                   payVars,
                   dialogVars, systemVars>>

\* ------------------------------------------------------------ the services
Fiats == {"USD", "EUR"}
Cryptos == {"USDT", "BTC"}

\* What an exchange may answer to a request for (fiat, crypto, tradeType): no
\* answer (the request fails), or a body listing none or two of the pair's
\* advertisements (the dearer one first).
Listed(f, c, tradeType, n, price, amount) ==
    [adv |-> Adv(price, amount, GoodMin, GoodMax, Str(<<f, c, tradeType, n>>)),
     advertiser |-> Advertiser(JNum(60), JNum(98), JNum(500))]

Responses(f, c, tradeType) ==
    LET first == Listed(f, c, tradeType, "1", GoodPrice, GoodAmount)
        second == Listed(f, c, tradeType, "2", Str(<<"1", ".", "2">>), Str(<<"3", "0">>))
    IN  {[failed |-> TRUE, body |-> BodyOf(<<>>)]}
        \cup {[failed |-> FALSE, body |-> BodyOf(items)] :
                  items \in {<<>>, <<first, second>>}}

\* fetchOrders as a whole: the request (axios) fails, or its body is mapped.
FetchOutcome(e, tradeType, response, time, random) ==
    IF response.failed THEN Rejected("Network Error")
    ELSE fetchOrders(e, tradeType, response.body, time, random)

IdsOf(ordersList) == {ordersList[i].advNo : i \in 1..Len(ordersList)}

\* What getOrders returns once both fetches have resolved.  Only the Binance
\* service sorts the two sides.
Snapshot(e, buyOrders, sellOrders, previousBuy, previousSell) ==
    LET sortedBuyOrders == IF e = "binance" THEN SortByPrice("asc", buyOrders)
                           ELSE buyOrders
        sortedSellOrders == IF e = "binance" THEN SortByPrice("desc", sellOrders)
                            ELSE sellOrders
    IN  [buyOrders |-> sortedBuyOrders,
         sellOrders |-> sortedSellOrders,
         hasChanges |-> hasOrdersChanged(sortedBuyOrders, previousBuy)
                            \/ hasOrdersChanged(sortedSellOrders, previousSell)]

NoSnapshot == [buyOrders |-> <<>>, sellOrders |-> <<>>, hasChanges |-> FALSE]

\* The outcome of getOrders from the outcomes of its two fetches: Promise.all
\* resolves when both have, and rejects with the error of a fetch that failed.
GetOrdersOutcomes(e, buy, sell, previousBuy, previousSell) ==
    IF buy.ok /\ sell.ok
    THEN {[ok |-> TRUE, error |-> "",
           data |-> Snapshot(e, buy.orders, sell.orders, previousBuy, previousSell)]}
    ELSE {[ok |-> FALSE, error |-> r.error, data |-> NoSnapshot] :
              r \in {x \in {buy, sell} : ~x.ok}}

NoCall == [caller |-> "none", cycle |-> 0, exchange |-> "", fiat |-> "", crypto |-> "",
           overwritten |-> FALSE]

Call(caller, e, f, c) ==
    [caller |-> caller, cycle |-> 0, exchange |-> e, fiat |-> f, crypto |-> c,
     overwritten |-> FALSE]

\* A call made by the n-th P2PComparison fetch awaiting its calls.
CycleCall(n, e, f, c) == [Call("comparison", e, f, c) EXCEPT !.cycle = n]

Slots == 1..MaxInFlight
FreeSlots(cs) == {k \in Slots : cs[k] = NoCall}

\* cs with one more call, in its lowest free slot.
WithCall(cs, call) ==
    LET k == CHOOSE j \in FreeSlots(cs) : \A i \in FreeSlots(cs) : j <= i
    IN  [cs EXCEPT ![k] = call]

NoPrevious == [seen |-> FALSE, buy |-> {}, sell |-> {}]

\* The continuation of getOrders for the call in slot k, with outcome out: on
\* success updatePreviousOrders, and in either case the call is over.  Every
\* other call in flight on the same service has then seen the sets it will be
\* diffed against written by another cycle.
GetOrdersSettles(k, out) ==
    LET call == calls[k]
        e == call.exchange
        key == <<e, call.fiat, call.crypto>>
    IN  /\ calls' = [j \in Slots |->
                        IF j = k THEN NoCall
                        ELSE IF out.ok /\ calls[j] # NoCall /\ calls[j].exchange = e
                        THEN [calls[j] EXCEPT !.overwritten = TRUE]
                        ELSE calls[j]]
        /\ IF out.ok
           THEN /\ previousBuyOrders' =
                       [previousBuyOrders EXCEPT ![e] = IdsOf(out.data.buyOrders)]
                /\ previousSellOrders' =
                       [previousSellOrders EXCEPT ![e] = IdsOf(out.data.sellOrders)]
                /\ lastSnapshot' =
                       [lastSnapshot EXCEPT ![key] =
                           [seen |-> TRUE, buy |-> IdsOf(out.data.buyOrders),
                            sell |-> IdsOf(out.data.sellOrders)]]
                /\ lastReturn' = [returned |-> TRUE, call |-> call,
                                  hasChanges |-> out.data.hasChanges,
                                  buy |-> IdsOf(out.data.buyOrders),
                                  sell |-> IdsOf(out.data.sellOrders),
                                  previous |-> lastSnapshot[key],
                                  comparedBuy |-> previousBuyOrders[e],
                                  comparedSell |-> previousSellOrders[e]]
           ELSE UNCHANGED <<previousBuyOrders, previousSellOrders, lastSnapshot, lastReturn>>
        /\ UNCHANGED <<started, now>>

\* ------------------------------------------------- getOrders on its own
\* The offers getOrders is exercised on: two kept ones with different prices
\* and one that is dropped.
GetItems ==
    {RawItem(GoodPrice, GoodAmount, GoodMin, GoodMax, GoodAdvNo),
     RawItem(Str(<<"1", ".", "2">>), GoodAmount, GoodMin, GoodMax, Str(<<"B">>)),
     RawItem(Str(<<"a", "b", "c">>), GoodAmount, GoodMin, GoodMax, Str(<<"C">>))}

\* What the request of one side may answer: nothing (it fails or times out),
\* a body with data: null, or a body listing offers.
GetResponses ==
    {[failed |-> TRUE, body |-> BodyOf(<<>>)], [failed |-> FALSE, body |-> BodyNullData]}
    \cup {[failed |-> FALSE, body |-> BodyOf(items)] : items \in SeqsUpTo(GetItems, MaxItems)}

GetPrevious == {{}, {<<"native", GoodAdvNo>>}}

InitGetIdle ==
    /\ gExchange = "binance"
    /\ gBuy = [failed |-> FALSE, body |-> BodyOf(<<>>)]
    /\ gSell = [failed |-> FALSE, body |-> BodyOf(<<>>)]
    /\ gPreviousBuyOrders = {}
    /\ gPreviousSellOrders = {}
    /\ gResult = <<"idle">>
    /\ gPolls = <<>>

InitGet ==
    /\ gExchange \in Exchanges
    /\ gBuy \in GetResponses
    /\ gSell \in GetResponses
    /\ gPreviousBuyOrders \in GetPrevious
    /\ gPreviousSellOrders \in GetPrevious
    /\ gResult = <<"pending">>
    /\ gPolls = <<>>

\* A previous-id set that a failed getOrders empties.
PreviousAfter_clearedOnFailure(out, list, previous) ==
    IF out.ok THEN IdsOf(list) ELSE {}

\* A previous-id set after getOrders: updatePreviousOrders is reached only
\* when both fetches have resolved.
PreviousAfter(out, list, previous) ==
    IF out.ok THEN IdsOf(list) ELSE previous

\* Polling: a new service, and responses that may list an offer without
\* advNo.
PollItems ==
    {RawItem(GoodPrice, GoodAmount, GoodMin, GoodMax, GoodAdvNo),
     RawItem(Str(<<"1", ".", "2">>), GoodAmount, GoodMin, GoodMax, Str(<<"B">>)),
     RawItem(Str(<<"1", ".", "8">>), GoodAmount, GoodMin, GoodMax, Undefined)}

PollResponses ==
    {[failed |-> TRUE, body |-> BodyOf(<<>>)]}
    \cup {[failed |-> FALSE, body |-> BodyOf(items)] : items \in SeqsUpTo(PollItems, MaxItems)}

InitPoll ==
    /\ gExchange \in Exchanges
    /\ gBuy \in PollResponses
    /\ gSell \in PollResponses
    /\ gPreviousBuyOrders = {}
    /\ gPreviousSellOrders = {}
    /\ gResult = <<"pending">>
    /\ gPolls = <<>>

\* The instants a call may be made at: after the call before it.
LaterInstants(polls) ==
    {time \in Clock : polls = <<>> \/ time > polls[Len(polls)].time}

\* getOrders of the service gExchange, from the call to the settled promise:
\* both fetches, then (Binance) the sorts, the diff, updatePreviousOrders.
CallGetOrders ==
    /\ gResult = <<"pending">>
    /\ \E time \in LaterInstants(gPolls), random \in [1..MaxItems -> RandomTexts] :
          \E out \in GetOrdersOutcomes(gExchange,
                                       FetchOutcome(gExchange, "BUY", gBuy, time, random),
                                       FetchOutcome(gExchange, "SELL", gSell, time, random),
                                       gPreviousBuyOrders, gPreviousSellOrders) :
              /\ gResult' = <<"done", out>>
              /\ gPolls' = Append(gPolls, [time |-> time, ok |-> out.ok])
              /\ gPreviousBuyOrders' =
                     PreviousAfter(out, out.data.buyOrders, gPreviousBuyOrders)
              /\ gPreviousSellOrders' =
                     PreviousAfter(out, out.data.sellOrders, gPreviousSellOrders)
    /\ UNCHANGED <<gExchange, gBuy, gSell, diffVars, matchVars, normVars, depthVars,
                   spotVars,
                   sideVars,
                   payVars,
                   dialogVars, systemVars>>

\* The caller polls again, once the call before has settled: the exchange
\* answers as before.
PollAgain ==
    /\ gResult[1] = "done"
    /\ Len(gPolls) < MaxPolls
    /\ LaterInstants(gPolls) # {}
    /\ gResult' = <<"pending">>
    /\ UNCHANGED <<gExchange, gBuy, gSell, gPreviousBuyOrders, gPreviousSellOrders, gPolls,
                   diffVars, matchVars, normVars, depthVars, spotVars, sideVars,
                   payVars,
                   dialogVars, systemVars>>

\* The outcomes fetchOrders may have, by exchange, pair, side and time of the
\* answer.
Instants == 100..(100 + MaxTicks)

FetchOutcomes ==
    [e \in Exchanges, f \in Fiats, c \in Cryptos, tradeType \in TradeTypes, time \in Instants |->
        {FetchOutcome(e, tradeType, response, time, random) :
            response \in Responses(f, c, tradeType),
            random \in [1..MaxItems -> RandomTexts]}]

\* The outcomes the getOrders call in slot k may have now.
OutcomesOf(k) ==
    LET call == calls[k]
    IN  UNION { GetOrdersOutcomes(call.exchange, buy, sell,
                                  previousBuyOrders[call.exchange],
                                  previousSellOrders[call.exchange]) :
                buy \in FetchOutcomes[call.exchange, call.fiat, call.crypto, "BUY", now],
                sell \in FetchOutcomes[call.exchange, call.fiat, call.crypto, "SELL", now] }

\* A second passes.
Tick ==
    /\ now < 100 + MaxTicks
    /\ now' = now + 1
    /\ UNCHANGED <<previousBuyOrders, previousSellOrders, calls, started,
                   lastSnapshot, lastReturn, pageVars, analysisVars, comparisonVars,
                   pureVars>>

\* ------------------------------------------------------------ DashboardPage
\* fetchOrders up to its await: setLoading(true), setError(null), getOrders.
\* Started by the effect when it runs and by its interval, with the
\* selection the effect closed over, which is the current one.
DashboardFetchOrders ==
    /\ FreeSlots(calls) # {}
    /\ started < MaxStarted
    /\ calls' = WithCall(calls, Call("dashboard", exchange, fiat, crypto))
    /\ started' = started + 1
    /\ loading' = TRUE
    /\ error' = <<>>
    /\ UNCHANGED <<previousBuyOrders, previousSellOrders, now, lastSnapshot, lastReturn,
                   exchange, fiat, crypto, orders, ordersFrom, analysisVars,
                   comparisonVars, pureVars>>

\* History: data, fetched by call, replaces orders fetched for the same
\* exchange and pair, with the same ids on each side, and some order of the
\* same id differs in a field.
ValueChurn(call, data) ==
    /\ ordersFrom.applied
    /\ ordersFrom.fetchedFor = <<call.exchange, call.fiat, call.crypto>>
    /\ IdsOf(data.buyOrders) = IdsOf(orders.buyOrders)
    /\ IdsOf(data.sellOrders) = IdsOf(orders.sellOrders)
    /\ \E a \in Range(data.buyOrders) \cup Range(data.sellOrders),
          b \in Range(orders.buyOrders) \cup Range(orders.sellOrders) :
           a.advNo = b.advNo /\ a # b

\* fetchOrders from its await on, for the call in slot k: setOrders with
\* hasChanges recomputed as JSON.stringify(data) !== JSON.stringify(prev), or
\* setError; finally setLoading(false).
DashboardSettles(k) ==
    /\ calls[k].caller = "dashboard"
    /\ \E out \in OutcomesOf(k) :
          /\ GetOrdersSettles(k, out)
          /\ IF out.ok
             THEN LET data == [buyOrders |-> out.data.buyOrders,
                               sellOrders |-> out.data.sellOrders,
                               hasChanges |-> <<out.data.hasChanges>>]
                  IN  /\ orders' = [data EXCEPT !.hasChanges = <<data # orders>>]
                      /\ ordersFrom' = [applied |-> TRUE,
                                        fetchedFor |-> <<calls[k].exchange, calls[k].fiat,
                                                         calls[k].crypto>>,
                                        shownUnder |-> <<exchange, fiat, crypto>>,
                                        valueChurn |-> ValueChurn(calls[k], data)]
                      /\ UNCHANGED error
             ELSE /\ error' = <<out.error>>
                  /\ UNCHANGED <<orders, ordersFrom>>
    /\ loading' = FALSE
    /\ UNCHANGED <<exchange, fiat, crypto, analysisVars, comparisonVars, pureVars>>

\* -------------------------------------------------------- OrderBookAnalysis
\* fetchOrderBookData up to its await, with the props the effect closed over.
AnalysisFetchOrderBookData ==
    /\ FreeSlots(calls) # {}
    /\ started < MaxStarted
    /\ calls' = WithCall(calls, Call("analysis", exchange, fiat, crypto))
    /\ started' = started + 1
    /\ aLoading' = TRUE
    /\ aError' = <<>>
    /\ UNCHANGED <<previousBuyOrders, previousSellOrders, now, lastSnapshot, lastReturn,
                   pageVars, stats, orderBook, depthChartData, comparisonVars,
                   pureVars>>

BookEntries(ordersList, type) ==
    [i \in 1..Len(ordersList) |->
        [price |-> ordersList[i].price, amount |-> ordersList[i].amount, type |-> type]]

\* Math.round(a / b) of two finite numbers: Infinity keeps its sign in v.
RoundDiv(a, b) ==
    LET q == Div(a, b)
    IN  IF q.den > 0 THEN Num((2 * q.num + q.den) \div (2 * q.den))
        ELSE IF q.num = 0 THEN NaN
        ELSE [k |-> "inf", v |-> q.num]

\* Math.min(100, x) and 100 - x.
MinHundred(x) ==
    IF x.k = "num" THEN Num(IF x.v < 100 THEN x.v ELSE 100)
    ELSE IF x.k = "inf" /\ x.v > 0 THEN Num(100)
    ELSE x

HundredMinus(x) ==
    IF x.k = "num" THEN Num(100 - x.v)
    ELSE IF x.k = "inf" THEN [x EXCEPT !.v = -x.v]
    ELSE x

\* The market stats of a book with both sides non-empty, buys dearest first
\* and sells cheapest first.  1 / Math.max(0.1, spread) * 50 is 500 when
\* spread < 0.1, and 0 when spread is Infinity.
MarketStats(buyBook, sellBook) ==
    LET highestBuy == buyBook[1].price
        lowestSell == sellBook[1].price
        spread == Div((lowestSell - highestBuy) * 100, highestBuy)
        totalBuyVolume == SumSeq([i \in 1..Len(buyBook) |-> buyBook[i].amount])
        totalSellVolume == SumSeq([i \in 1..Len(sellBook) |-> sellBook[i].amount])
        totalVolume == totalBuyVolume + totalSellVolume
        buyPercentage == RoundDiv(totalBuyVolume * 100, totalVolume)
        score ==
            IF spread.den = 0 /\ spread.num = 0 THEN NaN
            ELSE IF spread.den = 0 /\ spread.num > 0 THEN RoundDiv(totalVolume, 200)
            ELSE IF spread.den = 0 \/ 10 * spread.num < spread.den
            THEN RoundDiv(totalVolume + 100000, 200)
            ELSE RoundDiv(totalVolume * spread.num + 10000 * spread.den, 200 * spread.num)
    IN  [liquidityScore |-> MinHundred(score),
         marketDepth |-> totalVolume,
         volatility24h |-> Div(12, 10),
         spread |-> spread,
         buyPercentage |-> buyPercentage,
         sellPercentage |-> HundredMinus(buyPercentage)]

\* fetchOrderBookData from its await on: the order book, and the depth chart
\* when both sides hold orders; or setError; finally setLoading(false).
AnalysisSettles(k) ==
    /\ calls[k].caller = "analysis"
    /\ \E out \in OutcomesOf(k) :
          /\ GetOrdersSettles(k, out)
          /\ IF out.ok
             THEN LET buyOrders == BookEntries(SortByPrice("desc", out.data.buyOrders), "BUY")
                      sellOrders == BookEntries(SortByPrice("asc", out.data.sellOrders), "SELL")
                      chart == DepthChart(out.data.buyOrders, out.data.sellOrders)
                  IN  /\ orderBook' = buyOrders \o sellOrders
                      /\ stats' = IF buyOrders # <<>> /\ sellOrders # <<>>
                                  THEN MarketStats(buyOrders, sellOrders)
                                  ELSE stats
                      /\ depthChartData' =
                             IF chart.computed
                             THEN [labels |-> chart.labels, buyData |-> chart.buyData,
                                   sellData |-> chart.sellData]
                             ELSE depthChartData
                      /\ UNCHANGED aError
             ELSE /\ aError' = <<out.error>>
                  /\ UNCHANGED <<stats, orderBook, depthChartData>>
    /\ aLoading' = FALSE
    /\ UNCHANGED <<pageVars, comparisonVars, pureVars>>

\* ------------------------------------------------------------------ Sidebar
\* onExchangeChange, onFiatChange or onCryptoChange with another value: the
\* page renders with the new selection and both effects run again (the
\* child's first): each clears its interval, sets a new one and fetches.
ChangeSelection(e, f, c) ==
    /\ <<e, f, c>> # <<exchange, fiat, crypto>>
    /\ Cardinality({i \in 1..3 : <<e, f, c>>[i] # <<exchange, fiat, crypto>>[i]}) = 1
    /\ Cardinality(FreeSlots(calls)) >= 2
    /\ started + 2 <= MaxStarted
    /\ exchange' = e
    /\ fiat' = f
    /\ crypto' = c
    /\ calls' = WithCall(WithCall(calls, Call("analysis", e, f, c)),
                         Call("dashboard", e, f, c))
    /\ started' = started + 2
    /\ loading' = TRUE
    /\ error' = <<>>
    /\ aLoading' = TRUE
    /\ aError' = <<>>
    /\ UNCHANGED <<previousBuyOrders, previousSellOrders, now, lastSnapshot, lastReturn,
                   orders, ordersFrom, stats, orderBook, depthChartData,
                   comparisonVars, pureVars>>

\* ------------------------------------------------------------ P2PComparison
Pending == <<"pending">>
NoCycle == [active |-> FALSE, rejected |-> FALSE, results |-> [e \in Exchanges |-> Pending]]
NewCycle == [NoCycle EXCEPT !.active = TRUE]
FreeCycles == {n \in 1..MaxCycles : ~cycles[n].active}

\* fetchOrders up to its await: isLoading, error cleared, and one getOrders
\* per service with the props; n is the fetch's place among those awaiting.
StartCycle(n, shown) ==
    /\ Cardinality(FreeSlots(calls)) >= 2
    /\ started + 2 <= MaxStarted
    /\ comparison' = [shown EXCEPT !.isLoading = TRUE, !.error = <<>>]
    /\ cycles' = [cycles EXCEPT ![n] = NewCycle]
    /\ calls' = WithCall(WithCall(calls, CycleCall(n, "binance", fiat, crypto)),
                         CycleCall(n, "okx", fiat, crypto))
    /\ started' = started + 2
    /\ UNCHANGED <<previousBuyOrders, previousSellOrders, now, lastSnapshot, lastReturn,
                   cycleOutcome, pageVars, analysisVars, pureVars>>

\* The interval fires.
ComparisonFetchOrders ==
    \E n \in FreeCycles :
        /\ \A m \in FreeCycles : n <= m
        /\ StartCycle(n, comparison)

\* The left or right exchange is selected: the component renders with it and
\* the effect runs again, clearing its interval, setting a new one and fetching.
SelectExchange(side, e) ==
    /\ IF side = "left" THEN comparison.leftExchange # e ELSE comparison.rightExchange # e
    /\ \E n \in FreeCycles :
          /\ \A m \in FreeCycles : n <= m
          /\ StartCycle(n, IF side = "left" THEN [comparison EXCEPT !.leftExchange = e]
                           ELSE [comparison EXCEPT !.rightExchange = e])

\* One getOrders call of a fetch is over.  Promise.all rejects with the first
\* rejection, and then the catch runs; it resolves when both calls have, and
\* then the two snapshots are shown by side.  A call that ends after the
\* rejection ends unobserved.
ComparisonSettles(k) ==
    /\ calls[k].caller = "comparison"
    /\ \E out \in OutcomesOf(k) :
          LET n == calls[k].cycle
              e == calls[k].exchange
              results == [cycles[n].results EXCEPT
                             ![e] = IF out.ok THEN <<"resolved", out.data>>
                                    ELSE <<"rejected", out.error>>]
              over == \A x \in Exchanges : results[x] # Pending
              shown ==
                  IF cycles[n].rejected THEN comparison
                  ELSE IF ~out.ok
                  THEN [comparison EXCEPT !.error = <<out.error>>, !.isLoading = FALSE]
                  ELSE IF over
                  THEN [comparison EXCEPT
                           !.leftOrders = results[comparison.leftExchange][2],
                           !.rightOrders = results[comparison.rightExchange][2],
                           !.isLoading = FALSE]
                  ELSE comparison
          IN  /\ GetOrdersSettles(k, out)
              /\ comparison' = shown
              /\ cycles' = [cycles EXCEPT ![n] =
                               IF over THEN NoCycle
                               ELSE [active |-> TRUE,
                                     rejected |-> cycles[n].rejected \/ ~out.ok,
                                     results |-> results]]
              /\ cycleOutcome' = IF over
                                 THEN [complete |-> TRUE, results |-> results, shown |-> shown]
                                 ELSE cycleOutcome
    /\ UNCHANGED <<pageVars, analysisVars, pureVars>>

\* ---------------------------------------------------- OrderBook spot price
\* A spot price is <<>> (undefined) or <<q>> with q a quotient in hundredths.
NoPrice == <<>>
Price(q) == <<q>>
Quote == Price(Div(123, 1))

\* The order lists the view is given, by their prices.
SpotSides == {<<>>, <<[price |-> 150]>>, <<[price |-> 110], [price |-> 120]>>}

\* What the price request may be answered with: no usable answer (the
\* request fails, the status is not ok, or the price is missing or 0), or a
\* price.
SpotAnswers == {NoPrice, Price(Div(9000, 1))}

\* reduce((sum, order) => sum + order.price, 0) / length, or 0.
AveragePrice(list) ==
    IF Len(list) > 0
    THEN Div(SumSeq([i \in 1..Len(list) |-> list[i].price]), Len(list))
    ELSE Div(0, 1)

\* useFallbackPrice over the order lists its effect closed over: the spot
\* price it sets, or NoPrice when it sets none.
FallbackPrice(buyOrders, sellOrders) ==
    LET buyAvg == AveragePrice(buyOrders)
        sellAvg == AveragePrice(sellOrders)
    IN  IF buyAvg.num # 0 /\ sellAvg.num # 0
        THEN Price(Div(buyAvg.num * sellAvg.den + sellAvg.num * buyAvg.den,
                       2 * buyAvg.den * sellAvg.den))
        ELSE IF buyAvg.num # 0 THEN Price(buyAvg)
        ELSE IF sellAvg.num # 0 THEN Price(sellAvg)
        ELSE NoPrice

StablePair(f, c) == f = "USD" /\ c \in {"USDT", "USDC"}

Resolution(by, f, c) == [by |-> by, fiat |-> f, crypto |-> c]

\* The effect, run with the props f, c, quote, buyOrders, sellOrders: the
\* quote if there is one, 1 for a stable pair, and else a price request.
SpotEffect(f, c, quote, buyOrders, sellOrders) ==
    IF quote # NoPrice
    THEN /\ currentSpotPrice' = quote
         /\ resolution' = Resolution("quote", f, c)
         /\ UNCHANGED <<spotLoading, spotFetches>>
    ELSE IF StablePair(f, c)
    THEN /\ currentSpotPrice' = Price(Div(100, 1))
         /\ resolution' = Resolution("stable", f, c)
         /\ UNCHANGED <<spotLoading, spotFetches>>
    ELSE /\ Len(spotFetches) < MaxSpotFetches
         /\ spotFetches' = Append(spotFetches,
                                  [fiat |-> f, crypto |-> c,
                                   buyOrders |-> buyOrders, sellOrders |-> sellOrders])
         /\ spotLoading' = TRUE
         /\ UNCHANGED <<currentSpotPrice, resolution>>

\* The host renders the view with other props, and the effect runs again.
RenderOrderBook(f, c, quote, buyOrders, sellOrders) ==
    /\ <<f, c, quote, buyOrders, sellOrders>>
           # <<pFiat, pCrypto, pSpotPrice, pBuyOrders, pSellOrders>>
    /\ pFiat' = f
    /\ pCrypto' = c
    /\ pSpotPrice' = quote
    /\ pBuyOrders' = buyOrders
    /\ pSellOrders' = sellOrders
    /\ SpotEffect(f, c, quote, buyOrders, sellOrders)
    /\ UNCHANGED <<diffVars, matchVars, normVars, depthVars, getVars,
                   sideVars,
                   payVars,
                   dialogVars, systemVars>>

SelectPair(f, c) ==
    /\ <<f, c>> # <<pFiat, pCrypto>>
    /\ RenderOrderBook(f, c, pSpotPrice, pBuyOrders, pSellOrders)

SupplySpotPrice(quote) == RenderOrderBook(pFiat, pCrypto, quote, pBuyOrders, pSellOrders)

UpdateOrders(buyOrders, sellOrders) ==
    RenderOrderBook(pFiat, pCrypto, pSpotPrice, buyOrders, sellOrders)

\* fetchSpotPrice from its await on, for its i-th pending request: the price
\* answered, or useFallbackPrice; finally setSpotLoading(false).
SpotFetchSettles(i, answer) ==
    /\ i \in 1..Len(spotFetches)
    /\ LET fetch == spotFetches[i]
           fallback == FallbackPrice(fetch.buyOrders, fetch.sellOrders)
       IN  /\ currentSpotPrice' =
                  IF answer # NoPrice THEN answer
                  ELSE IF fallback # NoPrice THEN fallback
                  ELSE currentSpotPrice
           /\ resolution' =
                  Resolution(IF answer # NoPrice THEN "fetched"
                             ELSE IF fallback # NoPrice THEN "orders" ELSE "nothing",
                             fetch.fiat, fetch.crypto)
    /\ spotFetches' = [j \in 1..(Len(spotFetches) - 1) |->
                          IF j < i THEN spotFetches[j] ELSE spotFetches[j + 1]]
    /\ spotLoading' = FALSE
    /\ UNCHANGED <<pFiat, pCrypto, pBuyOrders, pSellOrders, pSpotPrice,
                   diffVars, matchVars, normVars, depthVars, getVars,
                   sideVars,
                   payVars,
                   dialogVars, systemVars>>

InitSpotIdle ==
    /\ pFiat = "USD"
    /\ pCrypto = "USDT"
    /\ pBuyOrders = <<>>
    /\ pSellOrders = <<>>
    /\ pSpotPrice = NoPrice
    /\ currentSpotPrice = NoPrice
    /\ spotLoading = FALSE
    /\ spotFetches = <<>>
    /\ resolution = Resolution("none", "", "")

\* The view once mounted: currentSpotPrice starts as the spotPrice prop, and
\* the effect has run.
InitSpot ==
    /\ pFiat \in Fiats
    /\ pCrypto \in Cryptos
    /\ pBuyOrders \in SpotSides
    /\ pSellOrders \in SpotSides
    /\ pSpotPrice \in {NoPrice, Quote}
    /\ IF pSpotPrice # NoPrice
       THEN /\ currentSpotPrice = pSpotPrice
            /\ resolution = Resolution("quote", pFiat, pCrypto)
            /\ spotLoading = FALSE
            /\ spotFetches = <<>>
       ELSE IF StablePair(pFiat, pCrypto)
       THEN /\ currentSpotPrice = Price(Div(100, 1))
            /\ resolution = Resolution("stable", pFiat, pCrypto)
            /\ spotLoading = FALSE
            /\ spotFetches = <<>>
       ELSE /\ currentSpotPrice = NoPrice
            /\ resolution = Resolution("none", "", "")
            /\ spotLoading = TRUE
            /\ spotFetches = <<[fiat |-> pFiat, crypto |-> pCrypto,
                                buyOrders |-> pBuyOrders, sellOrders |-> pSellOrders]>>

\* ------------------------------------------------- OKX route: side mapping
\* A parameter the request does not carry is "": every handler tests it
\* with !x, x || default or x?.toString(), which treat undefined and ""
\* alike.
Absent == ""
HandlerTradeTypes == {Absent, "BUY", "SELL", "buy", "sell"}

\* String.prototype.toLowerCase on the texts a trade type is drawn from.
toLowerCase(text) ==
    CASE text = "BUY" -> "buy"
      [] text = "SELL" -> "sell"
      [] OTHER -> text

OkxRequest(handler, params) == <<"request", handler, params>>
BadRequest(handler) == <<"status", handler, 400>>

\* POST of the route: 400 without fiat, crypto or tradeType; else
\* okxTradeType = tradeType === 'BUY' ? 'buy' : 'sell'.
POST(f, c, tradeType) ==
    IF f = Absent \/ c = Absent \/ tradeType = Absent
    THEN BadRequest("POST")
    ELSE OkxRequest("POST", [quoteCurrency |-> f, baseCurrency |-> c,
                             side |-> IF tradeType = "BUY" THEN "buy" ELSE "sell"])

\* GET of the route: the parameters default to USDT, USD and BUY; side is
\* tradeType.toLowerCase().
GET(f, c, tradeType) ==
    LET crypto_ == IF c = Absent THEN "USDT" ELSE c
        fiat_ == IF f = Absent THEN "USD" ELSE f
        tradeType_ == IF tradeType = Absent THEN "BUY" ELSE tradeType
    IN  OkxRequest("GET", [quoteCurrency |-> fiat_, baseCurrency |-> crypto_,
                           side |-> toLowerCase(tradeType_)])

\* getP2PHandler of the express server: side is inverted.
getP2PHandler(f, c, tradeType) ==
    OkxRequest("getP2PHandler",
               [quoteCurrency |-> IF f = Absent THEN "USD" ELSE f,
                baseCurrency |-> IF c = Absent THEN "USDT" ELSE c,
                side |-> IF tradeType # Absent /\ toLowerCase(tradeType) = "buy"
                         THEN "sell" ELSE "buy"])

InitSideIdle ==
    /\ hFiat = Absent
    /\ hCrypto = Absent
    /\ hTradeType = Absent
    /\ hResult = <<"idle">>

InitSide ==
    /\ hFiat \in Fiats \cup {Absent}
    /\ hCrypto \in Cryptos \cup {Absent}
    /\ hTradeType \in HandlerTradeTypes
    /\ hResult = <<"idle">>

HandlerReturns(result) ==
    /\ hResult = <<"idle">>
    /\ hResult' = result
    /\ UNCHANGED <<hFiat, hCrypto, hTradeType, diffVars, matchVars, normVars, depthVars,
                   getVars, spotVars,
                   payVars,
                   dialogVars, systemVars>>

CallPOST == HandlerReturns(POST(hFiat, hCrypto, hTradeType))
CallGET == HandlerReturns(GET(hFiat, hCrypto, hTradeType))
CallGetP2PHandler == HandlerReturns(getP2PHandler(hFiat, hCrypto, hTradeType))

\* ------------------------------------------ OrderBook payment method filter
\* The payment methods the orders on display offer (paymentMethodOptions
\* without 'all').
PaymentMethodOptions == {"Bank", "Card", "Cash", "Wise"}

\* prev.includes(method)
Includes(list, method) == \E i \in 1..Len(list) : list[i] = method

\* prev.filter(m => m !== method)
RECURSIVE Without(_, _)
Without(list, method) ==
    IF list = <<>> THEN <<>>
    ELSE IF Head(list) = method THEN Without(Tail(list), method)
    ELSE <<Head(list)>> \o Without(Tail(list), method)

\* The All button: setSelectedPaymentMethods(['all']).
ClickAll ==
    /\ selectedPaymentMethods' = <<"all">>
    /\ UNCHANGED <<diffVars, matchVars, normVars, depthVars, getVars, spotVars, sideVars,
                   dialogVars, systemVars>>

\* The button of one method: [method] in place of 'all', else the method
\* toggled; 'all' in place of an empty list.
ToggleMethod(method) ==
    /\ LET prev == selectedPaymentMethods
           newMethods == IF Includes(prev, "all") THEN <<method>>
                         ELSE IF Includes(prev, method) THEN Without(prev, method)
                         ELSE Append(prev, method)
       IN  selectedPaymentMethods' = IF Len(newMethods) # 0 THEN newMethods ELSE <<"all">>
    /\ UNCHANGED <<diffVars, matchVars, normVars, depthVars, getVars, spotVars, sideVars,
                   dialogVars, systemVars>>

\* onPaymentMethodSelect of the selector in the head of either table; its
\* All badge passes 'all'.
SelectInTable(method) ==
    /\ LET prev == selectedPaymentMethods
       IN  selectedPaymentMethods' =
               IF Includes(prev, "all") THEN <<"all">>
               ELSE IF Includes(prev, method) THEN Without(prev, method)
               ELSE Append(prev, method)
    /\ UNCHANGED <<diffVars, matchVars, normVars, depthVars, getVars, spotVars, sideVars,
                   dialogVars, systemVars>>

InitPayIdle == selectedPaymentMethods = <<"all">>

\* useState(['all'])
InitPay == selectedPaymentMethods = <<"all">>

\* ------------------------------------------ P2PComparison: spread dialog
\* A selected order is <<>> (null) or <<order>>.
NoOrder == <<>>

\* The orders a table row may hand to handleOrderSelect.  The advNo
\* "undefined" stands for an order that has none; null?.advNo is undefined
\* too.
NoAdvNo == "undefined"
DialogOrders == [advNo : {"A", "B", NoAdvNo}, price : {100, 110}]
OrderTypes == {"all", "buy", "sell"}

SelectedAdvNo(selected) == IF selected = NoOrder THEN NoAdvNo ELSE selected[1].advNo

\* handleOrderSelect whose deselection leaves the dialog flag alone.
OrderSelected_deselectKeepsOpen(prev, order, orderType) ==
    IF orderType = "buy"
    THEN IF SelectedAdvNo(prev.selectedBuyOrder) = order.advNo
         THEN [prev EXCEPT !.selectedBuyOrder = NoOrder]
         ELSE [prev EXCEPT !.selectedBuyOrder = <<order>>,
                           !.isSpreadDialogOpen = prev.selectedSellOrder # NoOrder]
    ELSE IF SelectedAdvNo(prev.selectedSellOrder) = order.advNo
         THEN [prev EXCEPT !.selectedSellOrder = NoOrder]
         ELSE [prev EXCEPT !.selectedSellOrder = <<order>>,
                           !.isSpreadDialogOpen = prev.selectedBuyOrder # NoOrder]

\* The updater of handleOrderSelect: a click on the selected order of a side
\* deselects it and closes the dialog; another order is selected, and the
\* dialog opens if the other side has a selection.
OrderSelected(prev, order, orderType) ==
    IF orderType = "buy"
    THEN IF SelectedAdvNo(prev.selectedBuyOrder) = order.advNo
         THEN [prev EXCEPT !.selectedBuyOrder = NoOrder, !.isSpreadDialogOpen = FALSE]
         ELSE [prev EXCEPT !.selectedBuyOrder = <<order>>,
                           !.isSpreadDialogOpen = prev.selectedSellOrder # NoOrder]
    ELSE IF SelectedAdvNo(prev.selectedSellOrder) = order.advNo
         THEN [prev EXCEPT !.selectedSellOrder = NoOrder, !.isSpreadDialogOpen = FALSE]
         ELSE [prev EXCEPT !.selectedSellOrder = <<order>>,
                           !.isSpreadDialogOpen = prev.selectedBuyOrder # NoOrder]

\* The fields of the comparison state modelled here.
ComparisonSelection ==
    [selectedBuyOrder |-> selectedBuyOrder,
     selectedSellOrder |-> selectedSellOrder,
     isSpreadDialogOpen |-> isSpreadDialogOpen]

DialogFrame ==
    UNCHANGED <<diffVars, matchVars, normVars, depthVars, getVars, spotVars, sideVars,
                payVars, systemVars>>

handleOrderSelect(order, orderType) ==
    /\ LET next == OrderSelected(ComparisonSelection, order, orderType)
       IN  /\ selectedBuyOrder' = next.selectedBuyOrder
           /\ selectedSellOrder' = next.selectedSellOrder
           /\ isSpreadDialogOpen' = next.isSpreadDialogOpen
    /\ UNCHANGED <<leftOrderType, rightOrderType>>
    /\ DialogFrame

handleCloseSpreadDialog ==
    /\ selectedBuyOrder' = NoOrder
    /\ selectedSellOrder' = NoOrder
    /\ isSpreadDialogOpen' = FALSE
    /\ UNCHANGED <<leftOrderType, rightOrderType>>
    /\ DialogFrame

\* The other updaters spread prev; of them, the order type filters.
handleLeftOrderTypeChange(value) ==
    /\ leftOrderType' = value
    /\ UNCHANGED <<selectedBuyOrder, selectedSellOrder, isSpreadDialogOpen, rightOrderType>>
    /\ DialogFrame

handleRightOrderTypeChange(value) ==
    /\ rightOrderType' = value
    /\ UNCHANGED <<selectedBuyOrder, selectedSellOrder, isSpreadDialogOpen, leftOrderType>>
    /\ DialogFrame

InitDialogIdle ==
    /\ selectedBuyOrder = NoOrder
    /\ selectedSellOrder = NoOrder
    /\ isSpreadDialogOpen = FALSE
    /\ leftOrderType = "all"
    /\ rightOrderType = "all"

\* useState({..., leftOrderType: 'all', rightOrderType: 'all',
\* selectedBuyOrder: null, selectedSellOrder: null, isSpreadDialogOpen: false})
InitDialog ==
    /\ selectedBuyOrder = NoOrder
    /\ selectedSellOrder = NoOrder
    /\ isSpreadDialogOpen = FALSE
    /\ leftOrderType = "all"
    /\ rightOrderType = "all"

\* -------------------------------------------------------------- first states
InitServices ==
    /\ previousBuyOrders = [e \in Exchanges |-> {}]
    /\ previousSellOrders = [e \in Exchanges |-> {}]
    /\ now = 100
    /\ lastSnapshot = [key \in Exchanges \X Fiats \X Cryptos |-> NoPrevious]
    /\ lastReturn = [returned |-> FALSE, call |-> NoCall, hasChanges |-> FALSE,
                     buy |-> {}, sell |-> {}, previous |-> NoPrevious,
                     comparedBuy |-> {}, comparedSell |-> {}]

\* DashboardPage and OrderBookAnalysis as constructed, with the fetching flags
\* as given.
InitPage(fetching) ==
    /\ exchange = "binance"
    /\ fiat = "USD"
    /\ crypto = "USDT"
    /\ orders = [buyOrders |-> <<>>, sellOrders |-> <<>>, hasChanges |-> <<>>]
    /\ loading = fetching
    /\ error = <<>>
    /\ ordersFrom = [applied |-> FALSE, fetchedFor |-> <<>>, shownUnder |-> <<>>,
                     valueChurn |-> FALSE]
    /\ aLoading = TRUE
    /\ aError = <<>>
    /\ stats = [liquidityScore |-> Num(85), marketDepth |-> 500000,
                volatility24h |-> Div(12, 10), spread |-> Div(15, 100),
                buyPercentage |-> Num(65), sellPercentage |-> Num(35)]
    /\ orderBook = <<>>
    /\ depthChartData = [labels |-> <<>>, buyData |-> <<>>, sellData |-> <<>>]

InitComparison(fetching) ==
    /\ comparison = [leftExchange |-> "binance", rightExchange |-> "okx",
                     leftOrders |-> [buyOrders |-> <<>>, sellOrders |-> <<>>],
                     rightOrders |-> [buyOrders |-> <<>>, sellOrders |-> <<>>],
                     isLoading |-> fetching, error |-> <<>>]
    /\ cycles = [n \in 1..MaxCycles |-> IF fetching /\ n = 1 THEN NewCycle ELSE NoCycle]
    /\ cycleOutcome = [complete |-> FALSE, results |-> NoCycle.results,
                       shown |-> comparison]

\* Nothing mounted, no call made.
InitSystemIdle ==
    /\ InitServices
    /\ calls = [k \in Slots |-> NoCall]
    /\ started = 0
    /\ InitPage(FALSE)
    /\ InitComparison(FALSE)

\* The page once mounted on its overview tab: both effects have run (the
\* child's first) and each has started its first fetch for binance, USD/USDT.
InitSystem ==
    /\ InitServices
    /\ calls = WithCall(WithCall([k \in Slots |-> NoCall],
                                 Call("analysis", "binance", "USD", "USDT")),
                        Call("dashboard", "binance", "USD", "USDT"))
    /\ started = 2
    /\ InitPage(TRUE)
    /\ InitComparison(FALSE)

\* P2PComparison once mounted with the props USD and USDT: its effect has run
\* and started the first fetch, one call per service.
InitCompare ==
    /\ InitServices
    /\ calls = WithCall(WithCall([k \in Slots |-> NoCall],
                                 CycleCall(1, "binance", "USD", "USDT")),
                        CycleCall(1, "okx", "USD", "USDT"))
    /\ started = 2
    /\ InitPage(FALSE)
    /\ InitComparison(TRUE)

\* ------------------------------------------------------------------ claims
\* C1: hasOrdersChanged(newOrders, previousIds) is false exactly when the set of
\* ids of newOrders equals previousIds, whatever the orders' other fields are.
C1_DiffIffIdSetsDiffer ==
    dResult[1] = "done" =>
        (dResult[2] = FALSE <=> {o.advNo : o \in Range(dNewOrders)} = dPreviousOrderIds)

\* C1 witness: an unchanged id set, listed with a duplicate and in another order
\* than stored, is reported as no change.
C1_Witness ==
    /\ dResult = <<"done", FALSE>>
    /\ Cardinality(dPreviousOrderIds) = 2
    /\ Len(dNewOrders) = 3

\* The number a raw value denotes when the whole of it is a numeral, NaN
\* otherwise (a missing or null value, text, a numeral followed by text).
WholeNumeral(x) ==
    IF x.t = "number" THEN Num(x.n)
    ELSE IF x.t # "string" THEN NaN
    ELSE LET s == x.s
             i1 == IF s # <<>> /\ s[1] \in {"-", "+"} THEN 2 ELSE 1
             n1 == DigitRun(s, i1)
             dot == i1 + n1 <= Len(s) /\ s[i1 + n1] = "."
             n2 == IF dot THEN DigitRun(s, i1 + n1 + 1) ELSE 0
             used == (i1 - 1) + n1 + (IF dot THEN 1 + n2 ELSE 0)
         IN  IF n1 + n2 > 0 /\ used = Len(s) THEN ParseFloatString(s) ELSE NaN

\* An offer is valid when its price and its amount are numbers above 0.
ValidOffer(item) ==
    /\ item.adv.has
    /\ JsGe(WholeNumeral(item.adv.price), Num(1))
    /\ JsGe(WholeNumeral(item.adv.surplusAmount), Num(1))

ValidCount(items) == Cardinality({n \in 1..Len(items) : ValidOffer(items[n])})

\* C6: the normalizer's output holds no order with price <= 0 or amount <= 0,
\* and exactly as many orders as the response holds valid offers.
C6_InvalidExcluded ==
    (nResult[1] = "done" /\ nResult[2].ok) =>
        /\ \A o \in Range(nResult[2].orders) : o.price > 0 /\ o.amount > 0
        /\ Len(nResult[2].orders) = ValidCount(nBody.data.items)

\* C7: every opportunity the matcher returns has minAmount <= maxAmount and
\* spreadPercentage >= the filter's minimum spread.
C7_Feasible ==
    mResult[1] = "done" =>
        \A opp \in Range(mResult[2]) :
            /\ JsGe(opp.maxAmount, opp.minAmount)
            /\ QGeNum(opp.spreadPercentage, mFilters.minSpread)

\* C7 witness: the matcher returned an opportunity and rejected another pair of
\* merchants that pass the rating and trade-count thresholds.
C7_Witness ==
    /\ mResult[1] = "done"
    /\ mResult[2] # <<>>
    /\ \E i \in 1..Len(mBuyOrders), j \in 1..Len(mSellOrders) :
          /\ MerchantOk(mBuyOrders[i], mFilters)
          /\ MerchantOk(mSellOrders[j], mFilters)
          /\ \A opp \in Range(mResult[2]) : opp.gen # <<i, j>>

\* The end-to-end scenario: one buy order at 0.90 (amount 80, limits 10..1000),
\* one sell order at 1.10 (amount 50, limits 10..500), minimum spread 5 %.
ScenarioDone ==
    /\ mResult[1] = "done"
    /\ mBuyOrders = <<o90>>
    /\ mSellOrders = <<o110>>
    /\ mFilters = [minSpread |-> Num(5), minAmount |-> Num(0), maxAmount |-> Num(10000),
                   minUserRating |-> Num(95), minCompletedTrades |-> 100]

\* 200/9 = 22.2...
IsScenarioSpread(q) == q.den > 0 /\ q.num * 9 = 200 * q.den

\* C8 (as stated): the scenario yields exactly one opportunity, with spread
\* 22.2 %, effective minimum 10 and effective maximum 80.
C8_ScenarioMax80 ==
    ScenarioDone =>
        /\ Len(mResult[2]) = 1
        /\ IsScenarioSpread(mResult[2][1].spreadPercentage)
        /\ mResult[2][1].minAmount = Num(10)
        /\ mResult[2][1].maxAmount = Num(80)

\* C8 (amended): the scenario yields exactly one opportunity, with spread
\* 22.2 %, effective minimum 10 and effective maximum 500 = min(1000, 500): the
\* available amounts do not bound it.
C8_ScenarioMax500 ==
    ScenarioDone =>
        /\ Len(mResult[2]) = 1
        /\ IsScenarioSpread(mResult[2][1].spreadPercentage)
        /\ mResult[2][1].minAmount = Num(10)
        /\ mResult[2][1].maxAmount = Num(500)

\* C8 witness: the matcher has run on the scenario.
C8_Witness == ScenarioDone /\ Len(mResult[2]) = 1

GenBefore(g, h) == g[1] < h[1] \/ (g[1] = h[1] /\ g[2] < h[2])

\* C9: the returned sequence is in descending order of spreadPercentage, and
\* opportunities of equal spreadPercentage are in generation order.
C9_SortedStable ==
    mResult[1] = "done" =>
        \A i, j \in 1..Len(mResult[2]) :
            i < j =>
                LET c == QCompare(mResult[2][i].spreadPercentage,
                                  mResult[2][j].spreadPercentage)
                IN  /\ c >= 0
                    /\ c = 0 => GenBefore(mResult[2][i].gen, mResult[2][j].gen)

\* C9 witness: a result with a tie, and with a pair the sort had to move in
\* front of an opportunity generated earlier.
C9_Witness ==
    /\ mResult[1] = "done"
    /\ \E i, j \in 1..Len(mResult[2]) :
          /\ i < j
          /\ QCompare(mResult[2][i].spreadPercentage, mResult[2][j].spreadPercentage) = 0
    /\ \E i, j \in 1..Len(mResult[2]) :
          /\ i < j
          /\ GenBefore(mResult[2][j].gen, mResult[2][i].gen)

\* C10: whenever the depth chart is computed, the per-bucket buy volumes
\* before accumulation add up to the amounts of all buy orders.
C10_BucketConservation ==
    (bResult[1] = "done" /\ bResult[2].computed) =>
        SumSeq(bResult[2].buyBuckets)
            = SumSeq([i \in 1..Len(bBuyOrders) |-> bBuyOrders[i].amount])

\* C11: whenever the depth chart is computed, the bucket width its bucket
\* indices are divided by is strictly positive.
C11_BucketWidthPositive ==
    (bResult[1] = "done" /\ bResult[2].computed) => bResult[2].bucketSize.num > 0

\* C12: a response body that is not an object, or that has no data member
\* (absent or null), makes fetchOrders resolve with no orders.
C12_MalformedEnvelopeEmpty ==
    (nResult[1] = "done" /\ nBody \in {BodyNotObject, BodyNoData, BodyNullData}) =>
        nResult[2].ok /\ nResult[2].orders = <<>>

\* C19: every order fetchOrders resolves with has at least one payment
\* method.
C19_PaymentMethodsNonEmpty ==
    (nResult[1] = "done" /\ nResult[2].ok) =>
        \A o \in Range(nResult[2].orders) : o.paymentMethods # <<>>

\* C20: when no item of the response gives activeTimeInSecond, every order
\* fetchOrders resolves with has lastOnlineTime 0, and the view renders it as
\* "Unknown".
C20_AbsentLastOnlineUnknown ==
    (/\ nResult[1] = "done"
     /\ nResult[2].ok
     /\ \A item \in Range(nBody.data.items) :
            item.advertiser.activeTimeInSecond = Undefined) =>
        \A o \in Range(nResult[2].orders) :
            /\ o.merchant.lastOnlineTime = 0
            /\ formatLastOnline(Num(o.merchant.lastOnlineTime), nNow) = <<"Unknown">>

NullData == [failed |-> FALSE, body |-> BodyNullData]

\* C13: binanceP2PService.getOrders, when its responses carry data: null,
\* rejects with the message 'Invalid API response structure'.
C13_NullDataRejects ==
    (gResult[1] = "done" /\ gExchange = "binance" /\ gBuy = NullData /\ gSell = NullData) =>
        ~gResult[2].ok /\ gResult[2].error = "Invalid API response structure"

C13_Witness ==
    /\ gResult[1] = "done"
    /\ gExchange = "binance"
    /\ gBuy = NullData
    /\ gSell = NullData
    /\ ~gResult[2].ok

\* C14: when the request of one side fails and the other side answers with
\* a list of offers, getOrders resolves, with no orders on the failed side.
C14_SideFailureIsolated ==
    (/\ gResult[1] = "done"
     /\ gBuy.failed # gSell.failed
     /\ gBuy.body.data.t = "array"
     /\ gSell.body.data.t = "array") =>
        /\ gResult[2].ok
        /\ gBuy.failed => gResult[2].data.buyOrders = <<>>
        /\ gSell.failed => gResult[2].data.sellOrders = <<>>

\* C16: in every snapshot getOrders resolves with, buyOrders ascend by price
\* and sellOrders descend by price.
C16_SnapshotSorted ==
    (gResult[1] = "done" /\ gResult[2].ok) =>
        LET buyOrders == gResult[2].data.buyOrders
            sellOrders == gResult[2].data.sellOrders
        IN  /\ \A i \in 1..(Len(buyOrders) - 1) : buyOrders[i].price <= buyOrders[i + 1].price
            /\ \A i \in 1..(Len(sellOrders) - 1) :
                   sellOrders[i].price >= sellOrders[i + 1].price

\* C15: when the orders put on display have the id sets of the orders they
\* replace, fetched for the same exchange and pair, and differ from them only
\* in fields, the hasChanges the page hands to its order-book view is false.
C15_ValueChurnNoChange ==
    (ordersFrom.applied /\ ordersFrom.valueChurn) => orders.hasChanges = <<FALSE>>

\* C17: whenever the order-book view is given a spot quote, the spot price it
\* shows is that quote, whatever the pair and the order lists, and it stays
\* so while the quote is given.
C17_QuoteAuthoritative ==
    pSpotPrice # NoPrice => currentSpotPrice = pSpotPrice

\* C18: once the price request for the pair on display has settled with
\* nothing to set (no quote, not a stable pair, no answer, both order lists
\* empty), the view shows no spot price.
C18_UnresolvedShowsNoPrice ==
    (/\ spotFetches = <<>>
     /\ resolution = Resolution("nothing", pFiat, pCrypto)
     /\ pSpotPrice = NoPrice
     /\ ~StablePair(pFiat, pCrypto)
     /\ pBuyOrders = <<>>
     /\ pSellOrders = <<>>)
        => currentSpotPrice = NoPrice

\* C21: every OKX handler asks OKX for side 'sell' when the user's tradeType
\* is BUY and for side 'buy' when it is SELL.
C21_SideInverted ==
    (hResult[1] = "request" /\ hTradeType \in {"BUY", "SELL"}) =>
        hResult[3].side = (IF hTradeType = "BUY" THEN "sell" ELSE "buy")

\* C22: whenever the depth chart is computed, its DepthBuckets buckets, each
\* bucketSize wide, start at the lowest of all prices and end at the highest:
\* the first label is minPrice and the last bucket's end,
\* minPrice + DepthBuckets * bucketSize, is maxPrice.
C22_BucketsSpanPriceRange ==
    (bResult[1] = "done" /\ bResult[2].computed) =>
        LET chart == bResult[2]
        IN  /\ chart.labels[1] = chart.minPrice
            /\ chart.minPrice * chart.bucketSize.den + DepthBuckets * chart.bucketSize.num
                   = chart.maxPrice * chart.bucketSize.den

\* The price lies in one of the buckets lo..hi (counted from 0), bucket j
\* being the prices from minPrice + j * range / DepthDivisions up to, not
\* including, minPrice + (j + 1) * range / DepthDivisions: together, the
\* prices from the start of bucket lo up to the end of bucket hi.
InBuckets(price, minPrice, range, lo, hi) ==
    /\ lo <= hi
    /\ lo * range <= (price - minPrice) * DepthDivisions
    /\ (price - minPrice) * DepthDivisions < (hi + 1) * range

AmountInBuckets(list, minPrice, range, lo, hi) ==
    SumSeq([k \in 1..Len(list) |->
               IF InBuckets(list[k].price, minPrice, range, lo, hi)
               THEN list[k].amount ELSE 0])

\* C23: whenever the depth chart is computed, buyData at bucket i is the sum
\* of the amounts of the buy orders priced in buckets 0..i and sellData at
\* bucket i the sum of the amounts of the sell orders priced in buckets
\* i..DepthBuckets-1.
C23_CumulativeSeries ==
    (bResult[1] = "done" /\ bResult[2].computed) =>
        LET chart == bResult[2]
            range == chart.maxPrice - chart.minPrice
        IN  \A i \in 0..(DepthBuckets - 1) :
                /\ chart.buyData[i + 1]
                       = AmountInBuckets(bBuyOrders, chart.minPrice, range, 0, i)
                /\ chart.sellData[i + 1]
                       = AmountInBuckets(bSellOrders, chart.minPrice, range, i, DepthBuckets - 1)

\* A chart whose buy series rises twice and whose sell series falls twice.
C23_Witness ==
    /\ bResult[1] = "done"
    /\ bResult[2].computed
    /\ \E i, j \in 1..(DepthBuckets - 1) :
          /\ i < j
          /\ 0 < bResult[2].buyData[i]
          /\ bResult[2].buyData[i] < bResult[2].buyData[j]
          /\ bResult[2].sellData[i] > bResult[2].sellData[j]
          /\ bResult[2].sellData[j] > 0

\* A valid offer, with its advertiser, that gives no minimum or no maximum
\* amount.
LimitAbsent(item) ==
    /\ ValidOffer(item)
    /\ item.advertiser.has
    /\ \/ item.adv.minSingleTransAmount = Undefined
       \/ item.adv.maxSingleTransAmount = Undefined

\* C24: a response made of valid offers that lack minAmount or maxAmount
\* makes fetchOrders resolve, not reject, with one order per offer.
C24_AbsentLimitsEmitted ==
    (/\ nResult[1] = "done"
     /\ nBody.t = "object"
     /\ nBody.data.t = "array"
     /\ nBody.data.items # <<>>
     /\ \A item \in Range(nBody.data.items) : LimitAbsent(item)) =>
        /\ nResult[2].ok
        /\ Len(nResult[2].orders) = Len(nBody.data.items)

\* The advertisement ids the exchange gave are pairwise distinct.
NativeIdsDistinct(items) ==
    \A i, j \in 1..Len(items) :
        (i # j /\ items[i].adv.has /\ items[j].adv.has /\ Truthy(items[i].adv.advNo))
            => items[i].adv.advNo # items[j].adv.advNo

SameId(a, b) == a[1] = b[1] /\ a = b

\* C25: when the exchange's own ids are pairwise distinct, so are the ids of
\* the orders one fetchOrders call resolves with, the generated ones included.
C25_IdsDistinct ==
    (nResult[1] = "done" /\ nResult[2].ok /\ NativeIdsDistinct(nBody.data.items)) =>
        \A i, j \in 1..Len(nResult[2].orders) :
            i # j => ~SameId(nResult[2].orders[i].id, nResult[2].orders[j].id)

\* C26: a getOrders call that fails leaves the service's previous buy and
\* sell id sets as they were before the call.
C26_FailureKeepsPrevious ==
    [][(gResult'[1] = "done" /\ ~gResult'[2].ok)
           => UNCHANGED <<gPreviousBuyOrders, gPreviousSellOrders>>]_vars

\* A failed call, one side of which answered with offers, of a service that
\* holds previous ids.
C26_Witness ==
    /\ gResult[1] = "done"
    /\ ~gResult[2].ok
    /\ gPreviousBuyOrders # {}
    /\ gPreviousSellOrders # {}
    /\ ~gBuy.failed
    /\ gBuy.body.t = "object"
    /\ gBuy.body.data.t = "array"
    /\ Len(gBuy.body.data.items) = MaxItems
    /\ gSell.failed

\* C27: when getOrders succeeds twice in a row on the same offers, the second
\* call reports hasChanges = false, also when an offer has no advNo.
C27_SameOffersNoChange ==
    (/\ gResult[1] = "done"
     /\ gResult[2].ok
     /\ Len(gPolls) >= 2
     /\ gPolls[Len(gPolls) - 1].ok) => ~gResult[2].data.hasChanges

\* C28: whenever a getOrders call made by the dashboard page is in flight,
\* the page's loading flag is true.
C28_LoadingWhileInFlight ==
    (\E k \in Slots : calls[k].caller = "dashboard") => loading = TRUE

\* C29: the list of selected payment methods is never empty and never holds
\* 'all' next to a method.
C29_SelectionWellFormed ==
    /\ selectedPaymentMethods # <<>>
    /\ Includes(selectedPaymentMethods, "all") => selectedPaymentMethods = <<"all">>

\* C30: the spread comparison dialog is open only if a buy order and a sell
\* order are both selected.
C30_DialogNeedsBothOrders ==
    isSpreadDialogOpen => (selectedBuyOrder # NoOrder /\ selectedSellOrder # NoOrder)

\* The dialog is open on two selected orders, under a changed filter.
C30_Witness ==
    /\ isSpreadDialogOpen
    /\ selectedBuyOrder # NoOrder
    /\ selectedSellOrder # NoOrder
    /\ rightOrderType = "sell"

\* C2: whenever getOrders returns a snapshot for an exchange and pair for
\* which it has returned one before, hasChanges is true exactly when the buy
\* or the sell id set differs from that of the previous snapshot of the same
\* exchange and pair.
C2_HasChangesPerPair ==
    (lastReturn.returned /\ lastReturn.previous.seen) =>
        (lastReturn.hasChanges
            <=> (lastReturn.buy # lastReturn.previous.buy
                    \/ lastReturn.sell # lastReturn.previous.sell))

\* C3: no getOrders call in flight has had the previous-id sets of its
\* service written by another call since it started.
C3_NoForeignWrite == \A k \in Slots : ~calls[k].overwritten

\* C4: the orders the page holds were fetched for the exchange, fiat and
\* crypto that were selected when they were put on display.
C4_StaleDiscarded == ordersFrom.applied => ordersFrom.fetchedFor = ordersFrom.shownUnder

\* C5: once both calls of a comparison fetch are over with at least one
\* resolved, no error is shown for the fetch as a whole and each side that
\* shows a resolved exchange shows the snapshot that call returned.
C5_PartialFailureIsolated ==
    LET results == cycleOutcome.results
        shown == cycleOutcome.shown
    IN  (cycleOutcome.complete /\ \E e \in Exchanges : results[e][1] = "resolved") =>
            /\ shown.error = <<>>
            /\ \A e \in Exchanges :
                  results[e][1] = "resolved" =>
                      /\ shown.leftExchange = e => shown.leftOrders = results[e][2]
                      /\ shown.rightExchange = e => shown.rightOrders = results[e][2]

\* ---------------------------------------------------------- specifications
InitSpecDiff == InitSystemIdle /\ InitGetIdle /\ InitSpotIdle /\ InitDiff /\ InitMatchIdle /\ InitNormIdle /\ InitDepthIdle /\ InitSideIdle /\ InitPayIdle /\ InitDialogIdle
SpecDiff == InitSpecDiff /\ [][CallHasOrdersChanged]_vars

InitSpecMatch == InitSystemIdle /\ InitGetIdle /\ InitSpotIdle /\ InitMatch /\ InitDiffIdle /\ InitNormIdle /\ InitDepthIdle /\ InitSideIdle /\ InitPayIdle /\ InitDialogIdle
SpecMatch == InitSpecMatch /\ [][CallCalculateArbitrageOpportunities]_vars

InitSpecNorm == InitSystemIdle /\ InitGetIdle /\ InitSpotIdle /\ InitNorm /\ InitDiffIdle /\ InitMatchIdle /\ InitDepthIdle /\ InitSideIdle /\ InitPayIdle /\ InitDialogIdle
SpecNorm == InitSpecNorm /\ [][CallFetchOrders]_vars

InitSpecDepth == InitSystemIdle /\ InitGetIdle /\ InitSpotIdle /\ InitDepth /\ InitDiffIdle /\ InitMatchIdle /\ InitNormIdle /\ InitSideIdle /\ InitPayIdle /\ InitDialogIdle
SpecDepth == InitSpecDepth /\ [][CallDepthChart]_vars

InitSpec == InitSystem /\ InitGetIdle /\ InitSpotIdle /\ InitDiffIdle /\ InitMatchIdle /\ InitNormIdle /\ InitDepthIdle /\ InitSideIdle /\ InitPayIdle /\ InitDialogIdle

Next ==
    \/ Tick
    \/ DashboardFetchOrders
    \/ \E k \in Slots : DashboardSettles(k)
    \/ AnalysisFetchOrderBookData
    \/ \E k \in Slots : AnalysisSettles(k)
    \/ \E e \in Exchanges, f \in Fiats, c \in Cryptos : ChangeSelection(e, f, c)

Spec == InitSpec /\ [][Next]_vars

InitSpecCompare ==
    InitCompare /\ InitGetIdle /\ InitSpotIdle /\ InitDiffIdle /\ InitMatchIdle /\ InitNormIdle /\ InitDepthIdle /\ InitSideIdle /\ InitPayIdle /\ InitDialogIdle

NextCompare ==
    \/ Tick
    \/ ComparisonFetchOrders
    \/ \E side \in {"left", "right"}, e \in Exchanges : SelectExchange(side, e)
    \/ \E k \in Slots : ComparisonSettles(k)

SpecCompare == InitSpecCompare /\ [][NextCompare]_vars

InitSpecGet ==
    InitSystemIdle /\ InitGet /\ InitSpotIdle /\ InitDiffIdle /\ InitMatchIdle /\ InitNormIdle /\ InitDepthIdle /\ InitSideIdle /\ InitPayIdle /\ InitDialogIdle

SpecGet == InitSpecGet /\ [][CallGetOrders]_vars

InitSpecPoll ==
    InitSystemIdle /\ InitPoll /\ InitSpotIdle /\ InitDiffIdle /\ InitMatchIdle
        /\ InitNormIdle /\ InitDepthIdle /\ InitSideIdle /\ InitPayIdle /\ InitDialogIdle

NextPoll ==
    \/ CallGetOrders
    \/ PollAgain

SpecPoll == InitSpecPoll /\ [][NextPoll]_vars

InitSpecSpot ==
    InitSystemIdle /\ InitGetIdle /\ InitSpot /\ InitDiffIdle /\ InitMatchIdle
        /\ InitNormIdle /\ InitDepthIdle /\ InitSideIdle /\ InitPayIdle /\ InitDialogIdle

NextSpot ==
    \/ \E f \in Fiats, c \in Cryptos : SelectPair(f, c)
    \/ \E quote \in {NoPrice, Quote} : SupplySpotPrice(quote)
    \/ \E buyOrders \in SpotSides, sellOrders \in SpotSides : UpdateOrders(buyOrders, sellOrders)
    \/ \E i \in 1..MaxSpotFetches, answer \in SpotAnswers : SpotFetchSettles(i, answer)

SpecSpot == InitSpecSpot /\ [][NextSpot]_vars

InitSpecSide ==
    InitSystemIdle /\ InitGetIdle /\ InitSpotIdle /\ InitSide /\ InitDiffIdle
        /\ InitMatchIdle /\ InitNormIdle /\ InitDepthIdle /\ InitPayIdle /\ InitDialogIdle

NextSide ==
    \/ CallPOST
    \/ CallGET
    \/ CallGetP2PHandler

SpecSide == InitSpecSide /\ [][NextSide]_vars

InitSpecPay ==
    InitSystemIdle /\ InitGetIdle /\ InitSpotIdle /\ InitSideIdle /\ InitPay /\ InitDiffIdle
        /\ InitMatchIdle /\ InitNormIdle /\ InitDepthIdle /\ InitDialogIdle

NextPay ==
    \/ ClickAll
    \/ \E method \in PaymentMethodOptions : ToggleMethod(method)
    \/ \E method \in PaymentMethodOptions \cup {"all"} : SelectInTable(method)

SpecPay == InitSpecPay /\ [][NextPay]_vars

InitSpecDialog ==
    InitSystemIdle /\ InitGetIdle /\ InitSpotIdle /\ InitSideIdle /\ InitPayIdle /\ InitDialog
        /\ InitDiffIdle /\ InitMatchIdle /\ InitNormIdle /\ InitDepthIdle

NextDialog ==
    \/ \E order \in DialogOrders, orderType \in {"buy", "sell"} :
           handleOrderSelect(order, orderType)
    \/ handleCloseSpreadDialog
    \/ \E value \in OrderTypes : handleLeftOrderTypeChange(value)
    \/ \E value \in OrderTypes : handleRightOrderTypeChange(value)

SpecDialog == InitSpecDialog /\ [][NextDialog]_vars

====
